---- MODULE Spec2Model ----
(***************************************************************************)
(* A model of the editing core of basementuniverse/model-editor:           *)
(*   Model / Vertex / Edge / Surface   the mesh and its serialization      *)
(*   ModelEditor                       selection, creation tools, history, *)
(*                                     import, reset, the per-frame update *)
(*                                                                         *)
(* JavaScript objects are modelled by references (positive naturals) into  *)
(* three heaps, so that object identity (indexOf, includes, ===) and the   *)
(* uuid `id` of an entity are different things, as they are in the code:   *)
(* deserialization builds NEW objects that carry the OLD ids.              *)
(*                                                                         *)
(* The editor state is threaded through the operators as one record `s`    *)
(* whose fields are the fields of ModelEditor (plus the heaps); every      *)
(* handler is one action that applies the composed operator to the current *)
(* state and commits the result.                                           *)
(***************************************************************************)
EXTENDS Integers, Sequences, FiniteSets, TLC

VARIABLES
  vertexHeap,               \* Vertex objects: ref -> [id, position, hidden, hovered, selected]
  edgeHeap,                 \* Edge objects: ref -> [id, a, b, hovered, selected]
  surfaceHeap,              \* Surface objects: ref -> [id, vertices, hovered, selected]
  model,                    \* ModelEditor.model: the live Model (or null)
  history,                  \* ModelEditor.history
  currentHistoryIndex,      \* ModelEditor.currentHistoryIndex (0-based, -1 when empty)
  tool,                     \* ModelEditor.tool
  previousTool,             \* ModelEditor.previousTool
  spacebarPanActive,        \* ModelEditor.spacebarPanActive
  hoveredVertex,            \* ModelEditor.hoveredVertex
  hoveredEdge,              \* ModelEditor.hoveredEdge
  hoveredSurface,           \* ModelEditor.hoveredSurface
  clickedVertex,            \* ModelEditor.clickedVertex
  selectedVertices,         \* ModelEditor.selectedVertices
  selectedEdges,            \* ModelEditor.selectedEdges
  selectedSurfaces,         \* ModelEditor.selectedSurfaces
  draggingVertex,           \* ModelEditor.draggingVertex
  dragStartMouse,           \* ModelEditor.dragStartMouse
  dragStartVertexPositions, \* ModelEditor.dragStartVertexPositions
  verticesMoved,            \* ModelEditor.verticesMoved
  creatingEdge,             \* ModelEditor.creatingEdge
  creatingSurface,          \* ModelEditor.creatingSurface
  movementConstraintXActive,
  movementConstraintYActive,
  movementConstraintZActive,
  mouseLeftDown,            \* InputManager: the left button is held
  hoveredElement,           \* InputManager.hoveredElement?.id as of the last frame
  notifications,            \* observer: the 'change' events the last handler dispatched
  console,                  \* observer: what the last handler wrote to the console
  removedControllers,       \* observer: the 'jump' buttons the last handler removed
  lastInput,                \* observer: what InputManager showed the last frame (kept by
                            \* the explorations whose claims are about the input)
  probeIn,                  \* harness of the pure functions: the input tree
  probeOut                  \* harness of the pure functions: what deserialize returned

vars ==
  << vertexHeap, edgeHeap, surfaceHeap, model, history, currentHistoryIndex,
     tool, previousTool, spacebarPanActive, hoveredVertex, hoveredEdge,
     hoveredSurface, clickedVertex, selectedVertices, selectedEdges,
     selectedSurfaces, draggingVertex, dragStartMouse, dragStartVertexPositions,
     verticesMoved, creatingEdge, creatingSurface, movementConstraintXActive,
     movementConstraintYActive, movementConstraintZActive, mouseLeftDown,
     hoveredElement, notifications, console, removedControllers, lastInput,
     probeIn, probeOut >>

-----------------------------------------------------------------------------
(* Bounds of the exploration.                                              *)

\* the most vertices, edges and surfaces the live model may hold, and the most
\* entries the history may hold, when the editor is explored (Spec): a handler
\* that would go beyond is not taken
MaxVertices == 2

MaxEdges == 1

MaxSurfaces == 1

MaxHistory == 3

\* the same, when the model is driven through its own methods (ModelSpec)
MaxModelVertices == 3

MaxModelEdges == 2

MaxModelSurfaces == 1

MaxModelHistory == 4

\* the ids the trees handed to Model.deserialize draw from (ProbeSpec)
MaxProbeId == 3

\* the most entries a selection list may hold (Ctrl+click appends without looking)
MaxSelected == 2

\* the most vertices the surface being created may list
MaxCorners == 3

\* the most history entries of the select-tool exploration (SelectSpec)
MaxSelectHistory == 2

\* the furthest from the origin a drag may take a vertex, on any axis (SnapSpec)
MaxCoordinate == 100

\* the most vertices, edges and surfaces of the model whose objects the pointer
\* hovers over (HoverSpec); the most surfaces when surfaces are created
\* (CreateSpec)
MaxHoverVertices == 4

MaxHoverEdges == 4

MaxHoverSurfaces == 2

-----------------------------------------------------------------------------
(* Program constants.                                                      *)

VertexHoverRadius == 10

EdgeHoverRadius == 6

DefaultGridSize == 50

-----------------------------------------------------------------------------
(* Small helpers.                                                          *)

\* a null object reference
NULL == 0

\* a missing / empty uuid (falsy in `if (data.id)`)
NoId == 0

Range(q) == { q[i] : i \in 1..Len(q) }

\* Array.prototype.indexOf, 0-based, -1 when absent
RECURSIVE IndexFrom(_, _, _)
IndexFrom(q, x, i) ==
  IF i > Len(q) THEN -1
  ELSE IF q[i] = x THEN i - 1
       ELSE IndexFrom(q, x, i + 1)

IndexOf(q, x) == IndexFrom(q, x, 1)

\* Array.prototype.splice(index, 1), index 0-based
Splice1(q, index) ==
  SubSeq(q, 1, index) \o SubSeq(q, index + 2, Len(q))

\* the smallest positive natural outside `used`
SmallestUnused(used) ==
  CHOOSE n \in 1..(Cardinality(used) + 1) :
    /\ n \notin used
    /\ \A k \in 1..(n - 1) : k \in used

\* vec3(x, y, z)
vec3(x, y, z) == [x |-> x, y |-> y, z |-> z]

\* vec3.components(v): the array [x, y, z]
vec3_components(v) == << v.x, v.y, v.z >>

\* vec3.fromComponents([x, y, z])
vec3_fromComponents(c) == vec3(c[1], c[2], c[3])

vec3_add(a, b) == vec3(a.x + b.x, a.y + b.y, a.z + b.z)

vec3_sub(a, b) == vec3(a.x - b.x, a.y - b.y, a.z - b.z)

\* the n smallest positive naturals outside `used`, in increasing order
RECURSIVE SmallestUnusedSeq(_, _)
SmallestUnusedSeq(used, n) ==
  IF n = 0 THEN << >>
  ELSE LET first == SmallestUnused(used)
       IN  << first >> \o SmallestUnusedSeq(used \cup {first}, n - 1)

\* h with the objects objs[i] stored at the references refs[i]
HeapWith(h, refs, objs) ==
  [r \in DOMAIN h \cup Range(refs) |->
     IF r \in Range(refs)
       THEN objs[CHOOSE i \in 1..Len(refs) : refs[i] = r]
       ELSE h[r]]

-----------------------------------------------------------------------------
(* The state record the operators work on.                                 *)

\* the live model when there is none (this.model = null)
NoModel ==
  [null |-> TRUE, name |-> "", vertices |-> << >>, edges |-> << >>, surfaces |-> << >>]

\* new Model(name)
NewModel(name) ==
  [null |-> FALSE, name |-> name, vertices |-> << >>, edges |-> << >>, surfaces |-> << >>]

\* creatingEdge = null
NoCreatingEdge == [null |-> TRUE, a |-> NULL]

\* creatingSurface = null
NoCreatingSurface == [null |-> TRUE, vertices |-> << >>]

\* the current state as one record
Editor ==
  [ vertexHeap |-> vertexHeap, edgeHeap |-> edgeHeap, surfaceHeap |-> surfaceHeap,
    model |-> model, history |-> history,
    currentHistoryIndex |-> currentHistoryIndex,
    tool |-> tool, previousTool |-> previousTool,
    spacebarPanActive |-> spacebarPanActive,
    hoveredVertex |-> hoveredVertex, hoveredEdge |-> hoveredEdge,
    hoveredSurface |-> hoveredSurface, clickedVertex |-> clickedVertex,
    selectedVertices |-> selectedVertices, selectedEdges |-> selectedEdges,
    selectedSurfaces |-> selectedSurfaces, draggingVertex |-> draggingVertex,
    dragStartMouse |-> dragStartMouse,
    dragStartVertexPositions |-> dragStartVertexPositions,
    verticesMoved |-> verticesMoved, creatingEdge |-> creatingEdge,
    creatingSurface |-> creatingSurface,
    movementConstraintXActive |-> movementConstraintXActive,
    movementConstraintYActive |-> movementConstraintYActive,
    movementConstraintZActive |-> movementConstraintZActive,
    mouseLeftDown |-> mouseLeftDown, hoveredElement |-> hoveredElement,
    notifications |-> << >>, console |-> << >>, removedControllers |-> 0 ]

-----------------------------------------------------------------------------
(* Files the user may pick in the import dialog, after JSON.parse.         *)

VData(id, x, y, z, hidden) ==
  [id |-> id, position |-> << x, y, z >>, hidden |-> hidden]

EData(id, a, b) == [id |-> id, a |-> a, b |-> b]

SData(id, vs) == [id |-> id, vertices |-> vs]

Tree(name, vs, es, ss) ==
  [name |-> name, vertices |-> vs, edges |-> es, surfaces |-> ss]

\* the text of a file that JSON.parse rejects
Unparseable == [unparseable |-> TRUE]

\* two vertices joined by one edge
FileEdge ==
  Tree("m", << VData(1, 0, 0, 0, FALSE), VData(2, 50, 0, 0, TRUE) >>,
       << EData(1, 1, 2) >>, << >>)

\* the scenario of the specification: an edge whose b is no vertex of the file
FileDanglingEdge ==
  Tree("", << VData(1, 0, 0, 0, FALSE) >>, << EData(1, 1, 9) >>, << >>)

\* a surface that lists a vertex id the file does not have
FileDanglingSurface ==
  Tree("", << VData(1, 0, 0, 0, FALSE), VData(2, 50, 0, 0, FALSE) >>,
       << >>, << SData(1, << 1, 2, 9 >>) >>)

\* three vertices, one edge and the triangle on the three
FileTriangle ==
  Tree("t", << VData(1, 0, 0, 0, FALSE), VData(2, 50, 0, 0, FALSE),
               VData(4, 0, 0, 50, FALSE) >>,
       << EData(1, 1, 2) >>, << SData(1, << 1, 2, 4 >>) >>)

\* four vertices, of which the last is at the origin, the first above it, the
\* second before it and the third to its right, with edges and surfaces that
\* lie over each other in the panels, the upper ones first
FileScene ==
  Tree("s", << VData(1, 0, 20, 0, FALSE), VData(2, 0, 0, 30, FALSE),
               VData(3, 30, 0, 0, FALSE), VData(4, 0, 0, 0, FALSE) >>,
       << EData(1, 1, 3), EData(2, 2, 3), EData(3, 4, 3), EData(4, 4, 2) >>,
       << SData(1, << 4, 3, 2, 1 >>), SData(2, << 4, 3, 2 >>) >>)

ImportFiles == { Unparseable, FileEdge, FileDanglingEdge }

\* every file of the exploration
AllFiles == ImportFiles \cup { FileTriangle, FileDanglingSurface, FileScene }

\* every vertex id a serialization tree mentions
TreeVertexIds(data) ==
  { data.vertices[i].id : i \in 1..Len(data.vertices) }
    \cup { data.edges[i].a : i \in 1..Len(data.edges) }
    \cup { data.edges[i].b : i \in 1..Len(data.edges) }
    \cup UNION { Range(data.surfaces[i].vertices) : i \in 1..Len(data.surfaces) }

TreeEdgeIds(data) == { data.edges[i].id : i \in 1..Len(data.edges) }

TreeSurfaceIds(data) == { data.surfaces[i].id : i \in 1..Len(data.surfaces) }

\* the trees a fresh uuid must not collide with: the files, the history, the probe
KnownTrees(s) ==
  (AllFiles \ {Unparseable})
    \cup { s.history[i].model : i \in 1..Len(s.history) }
    \cup (IF probeIn = << >> THEN {} ELSE { probeIn[1] })

\* uuid(): an id no vertex, snapshot or file carries
UsedVertexIds(s) ==
  { s.vertexHeap[r].id : r \in DOMAIN s.vertexHeap }
    \cup UNION { TreeVertexIds(d) : d \in KnownTrees(s) }
    \cup (IF s.dragStartVertexPositions = << >> THEN {}
          ELSE DOMAIN s.dragStartVertexPositions[1])

UsedEdgeIds(s) ==
  { s.edgeHeap[r].id : r \in DOMAIN s.edgeHeap }
    \cup UNION { TreeEdgeIds(d) : d \in KnownTrees(s) }

UsedSurfaceIds(s) ==
  { s.surfaceHeap[r].id : r \in DOMAIN s.surfaceHeap }
    \cup UNION { TreeSurfaceIds(d) : d \in KnownTrees(s) }

-----------------------------------------------------------------------------
(* Vertex, Edge, Surface: construction and serialization.                  *)

\* new Vertex(position, hidden): the state with the object, and its reference
NewVertex(s, position, hidden) ==
  LET ref == SmallestUnused(DOMAIN s.vertexHeap)
      obj == [id |-> SmallestUnused(UsedVertexIds(s)), position |-> position,
              hidden |-> hidden, hovered |-> FALSE, selected |-> FALSE]
  IN  [s |-> [s EXCEPT !.vertexHeap = HeapWith(@, << ref >>, << obj >>)],
       ref |-> ref]

\* new Edge(a, b)
NewEdge(s, a, b) ==
  LET ref == SmallestUnused(DOMAIN s.edgeHeap)
      obj == [id |-> SmallestUnused(UsedEdgeIds(s)), a |-> a, b |-> b,
              hovered |-> FALSE, selected |-> FALSE]
  IN  [s |-> [s EXCEPT !.edgeHeap = HeapWith(@, << ref >>, << obj >>)],
       ref |-> ref]

\* new Surface(vertices)
NewSurface(s, vertices) ==
  LET ref == SmallestUnused(DOMAIN s.surfaceHeap)
      obj == [id |-> SmallestUnused(UsedSurfaceIds(s)), vertices |-> vertices,
              hovered |-> FALSE, selected |-> FALSE]
  IN  [s |-> [s EXCEPT !.surfaceHeap = HeapWith(@, << ref >>, << obj >>)],
       ref |-> ref]

\* Vertex.serialize
\* a serialize that writes the selected flag as well
Vertex_serialize_WithSelected(s, v) ==
  [id |-> s.vertexHeap[v].id,
   position |-> vec3_components(s.vertexHeap[v].position),
   hidden |-> s.vertexHeap[v].hidden,
   selected |-> s.vertexHeap[v].selected]

Vertex_serialize(s, v) ==
  [id |-> s.vertexHeap[v].id,
   position |-> vec3_components(s.vertexHeap[v].position),
   hidden |-> s.vertexHeap[v].hidden]

\* Edge.serialize
Edge_serialize(s, e) ==
  [id |-> s.edgeHeap[e].id,
   a |-> s.vertexHeap[s.edgeHeap[e].a].id,
   b |-> s.vertexHeap[s.edgeHeap[e].b].id]

\* Surface.serialize
Surface_serialize(s, f) ==
  [id |-> s.surfaceHeap[f].id,
   vertices |-> [i \in 1..Len(s.surfaceHeap[f].vertices) |->
                   s.vertexHeap[s.surfaceHeap[f].vertices[i]].id]]

\* Model.serialize, of the model m whose objects live in the heaps of s
Model_serialize(s, m) ==
  [name |-> m.name,
   vertices |-> [i \in 1..Len(m.vertices) |-> Vertex_serialize(s, m.vertices[i])],
   edges |-> [i \in 1..Len(m.edges) |-> Edge_serialize(s, m.edges[i])],
   surfaces |-> [i \in 1..Len(m.surfaces) |-> Surface_serialize(s, m.surfaces[i])]]

-----------------------------------------------------------------------------
(* Deserialization.                                                        *)

\* Map.prototype.get: undefined (NULL) for a key the map does not have
MapGet(map, key) == IF key \in DOMAIN map THEN map[key] ELSE NULL

\* Vertex.deserialize: the object built from data; uuid is the id the constructor drew
Vertex_deserialize(data, uuid) ==
  [id |-> IF data.id # NoId THEN data.id ELSE uuid,
   position |-> vec3_fromComponents(data.position),
   hidden |-> (data.hidden = TRUE),
   hovered |-> FALSE, selected |-> FALSE]

\* Edge.deserialize: throws when a or b is not in the map
Edge_deserialize(data, vertices, uuid) ==
  LET a == MapGet(vertices, data.a)
      b == MapGet(vertices, data.b)
  IN  IF a = NULL \/ b = NULL
        THEN [thrown |-> TRUE]
        ELSE [thrown |-> FALSE,
              edge |-> [id |-> IF data.id # NoId THEN data.id ELSE uuid,
                        a |-> a, b |-> b, hovered |-> FALSE, selected |-> FALSE]]

\* Surface.deserialize that skips the ids the map does not have
Surface_deserialize_SkipsMissing(data, vertices, uuid) ==
  [thrown |-> FALSE,
   surface |-> [id |-> IF data.id # NoId THEN data.id ELSE uuid,
                vertices |-> SelectSeq([i \in 1..Len(data.vertices) |->
                                          MapGet(vertices, data.vertices[i])],
                                       LAMBDA v : v # NULL),
                hovered |-> FALSE, selected |-> FALSE]]

\* Surface.deserialize: throws when a listed id is not in the map
Surface_deserialize(data, vertices, uuid) ==
  LET surfaceVertices == [i \in 1..Len(data.vertices) |-> MapGet(vertices, data.vertices[i])]
  IN  IF \E i \in 1..Len(data.vertices) : surfaceVertices[i] = NULL
        THEN [thrown |-> TRUE]
        ELSE [thrown |-> FALSE,
              surface |-> [id |-> IF data.id # NoId THEN data.id ELSE uuid,
                           vertices |-> surfaceVertices,
                           hovered |-> FALSE, selected |-> FALSE]]

\* Model.deserialize (static): [thrown, s, model]; the new objects go to the heaps of s
Model_deserialize(s, data) ==
  LET nv == Len(data.vertices)
      vrefs == SmallestUnusedSeq(DOMAIN s.vertexHeap, nv)
      vuuids == SmallestUnusedSeq(UsedVertexIds(s), nv)
      vobjs == [i \in 1..nv |-> Vertex_deserialize(data.vertices[i], vuuids[i])]
      \* verticesMap: a later vertex with the same id replaces an earlier one
      verticesMap ==
        [id \in { vobjs[i].id : i \in 1..nv } |->
           vrefs[CHOOSE i \in 1..nv :
                   /\ vobjs[i].id = id
                   /\ \A j \in (i + 1)..nv : vobjs[j].id # id]]
      ne == Len(data.edges)
      erefs == SmallestUnusedSeq(DOMAIN s.edgeHeap, ne)
      euuids == SmallestUnusedSeq(UsedEdgeIds(s), ne)
      edges == [i \in 1..ne |-> Edge_deserialize(data.edges[i], verticesMap, euuids[i])]
      ns == Len(data.surfaces)
      srefs == SmallestUnusedSeq(DOMAIN s.surfaceHeap, ns)
      suuids == SmallestUnusedSeq(UsedSurfaceIds(s), ns)
      surfaces ==
        [i \in 1..ns |-> Surface_deserialize(data.surfaces[i], verticesMap, suuids[i])]
      s1 == [s EXCEPT !.vertexHeap = HeapWith(@, vrefs, vobjs)]
  IN  IF \/ \E i \in 1..ne : edges[i].thrown
         \/ \E i \in 1..ns : surfaces[i].thrown
        THEN [thrown |-> TRUE, s |-> s1, model |-> NoModel]
        ELSE [thrown |-> FALSE,
              s |-> [s1 EXCEPT
                       !.edgeHeap = HeapWith(@, erefs, [i \in 1..ne |-> edges[i].edge]),
                       !.surfaceHeap =
                         HeapWith(@, srefs, [i \in 1..ns |-> surfaces[i].surface])],
              model |-> [null |-> FALSE, name |-> data.name, vertices |-> vrefs,
                         edges |-> erefs, surfaces |-> srefs]]

-----------------------------------------------------------------------------
(* History (ModelEditor).                                                  *)

\* ModelEditor.clearHistoryEntries(from)
clearHistoryEntries(s, from) ==
  IF from < 0 \/ from >= Len(s.history)
    THEN s
    ELSE [s EXCEPT !.history = SubSeq(@, 1, from),
                   !.removedControllers = @ + (Len(s.history) - from)]

\* addHistoryEntry that keeps the entries after the cursor
addHistoryEntry_KeepsRedoBranch(s, action, tree) ==
  [s EXCEPT !.history = Append(@, [action |-> action, model |-> tree]),
            !.currentHistoryIndex = Len(s.history)]

\* ModelEditor.addHistoryEntry(action, model)
addHistoryEntry(s, action, tree) ==
  LET s1 == IF s.currentHistoryIndex < Len(s.history) - 1
              THEN clearHistoryEntries(s, s.currentHistoryIndex + 1)
              ELSE s
      index == Len(s1.history)
  IN  [s1 EXCEPT !.history = Append(@, [action |-> action, model |-> tree]),
                 !.currentHistoryIndex = index]

\* a listener that records the notifications without a label too
modelChanged_RecordsUnlabelled(s, detail) ==
  addHistoryEntry(s, detail.action, detail.model)

\* ModelEditor.modelChanged: the listener of the live model's 'change' event
modelChanged(s, detail) ==
  IF detail.action # ""
    THEN addHistoryEntry(s, detail.action, detail.model)
    ELSE s

-----------------------------------------------------------------------------
(* Model: the mutators, applied to the live model of s.                    *)

\* emitChangeEvent that drops the action label
Model_emitChangeEvent_Unlabelled(s, action) ==
  LET detail == [model |-> Model_serialize(s, s.model), action |-> ""]
  IN  modelChanged([s EXCEPT !.notifications = Append(@, detail)], detail)

\* Model.emitChangeEvent(action): dispatches to the editor's listener, synchronously
Model_emitChangeEvent(s, action) ==
  LET detail == [model |-> Model_serialize(s, s.model), action |-> action]
  IN  modelChanged([s EXCEPT !.notifications = Append(@, detail)], detail)

\* Model.addVertex(position)
Model_addVertex(s, position) ==
  LET n == NewVertex(s, position, FALSE)
  IN  Model_emitChangeEvent(
        [n.s EXCEPT !.model.vertices = Append(@, n.ref)], "Vertex added")

\* removeVertex that leaves the edges alone
Model_removeVertex_KeepsEdges(s, vertex) ==
  LET index == IndexOf(s.model.vertices, vertex)
      KeepSurface(f) == vertex \notin Range(s.surfaceHeap[f].vertices)
  IN  IF index # -1
        THEN Model_emitChangeEvent(
               [s EXCEPT !.model.vertices = Splice1(@, index),
                         !.model.surfaces = SelectSeq(@, KeepSurface)],
               "Vertex removed")
        ELSE s

\* removeVertex that notifies before it cascades
Model_removeVertex_NotifiesFirst(s, vertex) ==
  LET index == IndexOf(s.model.vertices, vertex)
      KeepEdge(e) == s.edgeHeap[e].a # vertex /\ s.edgeHeap[e].b # vertex
      KeepSurface(f) == vertex \notin Range(s.surfaceHeap[f].vertices)
  IN  IF index # -1
        THEN [Model_emitChangeEvent(
                [s EXCEPT !.model.vertices = Splice1(@, index)], "Vertex removed")
                EXCEPT !.model.edges = SelectSeq(@, KeepEdge),
                       !.model.surfaces = SelectSeq(@, KeepSurface)]
        ELSE s

\* Model.removeVertex(vertex)
Model_removeVertex(s, vertex) ==
  LET index == IndexOf(s.model.vertices, vertex)
      KeepEdge(e) == s.edgeHeap[e].a # vertex /\ s.edgeHeap[e].b # vertex
      KeepSurface(f) == vertex \notin Range(s.surfaceHeap[f].vertices)
  IN  IF index # -1
        THEN Model_emitChangeEvent(
               [s EXCEPT !.model.vertices = Splice1(@, index),
                         !.model.edges = SelectSeq(@, KeepEdge),
                         !.model.surfaces = SelectSeq(@, KeepSurface)],
               "Vertex removed")
        ELSE s

\* an addEdge that tells nobody
Model_addEdge_Silent(s, edge) == [s EXCEPT !.model.edges = Append(@, edge)]

\* Model.addEdge(edge)
Model_addEdge(s, edge) ==
  Model_emitChangeEvent([s EXCEPT !.model.edges = Append(@, edge)], "Edge added")

\* Model.addEdge(a, b): the overload that makes the edge
Model_addEdgeBetween(s, a, b) ==
  LET n == NewEdge(s, a, b)
  IN  Model_addEdge(n.s, n.ref)

\* Model.removeEdge(edge)
\* a removeEdge that announces a removal whether it found the edge or not
Model_removeEdge_AlwaysNotifies(s, edge) ==
  LET index == IndexOf(s.model.edges, edge)
  IN  Model_emitChangeEvent(
        IF index # -1 THEN [s EXCEPT !.model.edges = Splice1(@, index)] ELSE s,
        "Edge removed")

Model_removeEdge(s, edge) ==
  LET index == IndexOf(s.model.edges, edge)
  IN  IF index # -1
        THEN Model_emitChangeEvent(
               [s EXCEPT !.model.edges = Splice1(@, index)], "Edge removed")
        ELSE s

\* Model.addSurface(surface)
Model_addSurface(s, surface) ==
  Model_emitChangeEvent(
    [s EXCEPT !.model.surfaces = Append(@, surface)], "Surface added")

\* Model.addSurface(vertices): the overload that makes the surface
Model_addSurfaceOf(s, vertices) ==
  LET n == NewSurface(s, vertices)
  IN  Model_addSurface(n.s, n.ref)

\* Model.removeSurface(surface)
Model_removeSurface(s, surface) ==
  LET index == IndexOf(s.model.surfaces, surface)
  IN  IF index # -1
        THEN Model_emitChangeEvent(
               [s EXCEPT !.model.surfaces = Splice1(@, index)], "Surface removed")
        ELSE s

-----------------------------------------------------------------------------
(* ModelEditor: selection.                                                 *)

\* entity.selected = flag, for every reference in refs
MarkSelected(heap, refs, flag) ==
  [r \in DOMAIN heap |-> IF r \in refs THEN [heap[r] EXCEPT !.selected = flag] ELSE heap[r]]

\* ModelEditor.deselectVertex(vertex?): vertex = NULL is the call without argument
deselectVertex(s, vertex) ==
  IF vertex # NULL
    THEN [s EXCEPT !.vertexHeap = MarkSelected(@, {vertex}, FALSE),
                   !.selectedVertices = SelectSeq(@, LAMBDA v : v # vertex)]
    ELSE [s EXCEPT !.vertexHeap = MarkSelected(@, Range(s.selectedVertices), FALSE),
                   !.selectedVertices = << >>]

\* ModelEditor.deselectEdge(edge?)
deselectEdge(s, edge) ==
  IF edge # NULL
    THEN [s EXCEPT !.edgeHeap = MarkSelected(@, {edge}, FALSE),
                   !.selectedEdges = SelectSeq(@, LAMBDA e : e # edge)]
    ELSE [s EXCEPT !.edgeHeap = MarkSelected(@, Range(s.selectedEdges), FALSE),
                   !.selectedEdges = << >>]

\* ModelEditor.deselectSurface(surface?)
deselectSurface(s, surface) ==
  IF surface # NULL
    THEN [s EXCEPT !.surfaceHeap = MarkSelected(@, {surface}, FALSE),
                   !.selectedSurfaces = SelectSeq(@, LAMBDA f : f # surface)]
    ELSE [s EXCEPT !.surfaceHeap = MarkSelected(@, Range(s.selectedSurfaces), FALSE),
                   !.selectedSurfaces = << >>]

\* selectVertex that always adds to the selection
selectVertex_AlwaysAdds(s, vertex, addToSelection) ==
  [s EXCEPT !.vertexHeap = MarkSelected(@, {vertex}, TRUE),
            !.selectedVertices = Append(@, vertex),
            !.draggingVertex = NULL,
            !.dragStartMouse = << >>,
            !.dragStartVertexPositions = << >>]

\* ModelEditor.selectVertex(vertex, addToSelection)
selectVertex(s, vertex, addToSelection) ==
  LET s1 == IF ~addToSelection THEN deselectVertex(s, NULL) ELSE s
  IN  [s1 EXCEPT !.vertexHeap = MarkSelected(@, {vertex}, TRUE),
                 !.selectedVertices = Append(@, vertex),
                 !.draggingVertex = NULL,
                 !.dragStartMouse = << >>,
                 !.dragStartVertexPositions = << >>]

\* ModelEditor.selectEdge(edge, addToSelection)
selectEdge(s, edge, addToSelection) ==
  LET s1 == IF ~addToSelection THEN deselectEdge(s, NULL) ELSE s
  IN  [s1 EXCEPT !.edgeHeap = MarkSelected(@, {edge}, TRUE),
                 !.selectedEdges = Append(@, edge)]

\* ModelEditor.selectSurface(surface, addToSelection)
selectSurface(s, surface, addToSelection) ==
  LET s1 == IF ~addToSelection THEN deselectSurface(s, NULL) ELSE s
  IN  [s1 EXCEPT !.surfaceHeap = MarkSelected(@, {surface}, TRUE),
                 !.selectedSurfaces = Append(@, surface)]

\* ModelEditor.removeVertex(vertex): the delete button of the vertex's inspector folder
removeVertex(s, vertex) ==
  deselectVertex(IF ~s.model.null THEN Model_removeVertex(s, vertex) ELSE s, vertex)

\* ModelEditor.removeEdge(edge)
removeEdge(s, edge) ==
  deselectEdge(IF ~s.model.null THEN Model_removeEdge(s, edge) ELSE s, edge)

\* ModelEditor.removeSurface(surface)
removeSurface(s, surface) ==
  deselectSurface(IF ~s.model.null THEN Model_removeSurface(s, surface) ELSE s, surface)

-----------------------------------------------------------------------------
(* ModelEditor: reset, tools, import, undo / redo / jump.                  *)

\* ModelEditor.reset(); confirmed is the answer to the confirm() dialog
reset(s, confirmed) ==
  IF ~s.model.null /\ ~confirmed
    THEN s
    ELSE LET s1 == deselectSurface(deselectEdge(deselectVertex(s, NULL), NULL), NULL)
         IN  [s1 EXCEPT !.model = NewModel(""),
                        !.tool = "select",
                        !.hoveredVertex = NULL,
                        !.draggingVertex = NULL,
                        !.dragStartMouse = << >>,
                        !.dragStartVertexPositions = << >>,
                        !.creatingEdge = NoCreatingEdge,
                        !.creatingSurface = NoCreatingSurface,
                        !.removedControllers = @ + Len(s.history),
                        !.history = << >>,
                        !.currentHistoryIndex = -1]

\* ModelEditor.setTool(tool)
setTool(s, t) == [s EXCEPT !.tool = t]

\* console.log / console.warn / console.error, by its first argument
console_log(s, message) == [s EXCEPT !.console = Append(@, message)]

\* ModelEditor.jumpToHistoryEntry(index): [thrown, s]
\* a jump whose rebuilt model announces itself as a change
jumpToHistoryEntry_Records(s, index) ==
  IF index < 0 \/ index >= Len(s.history)
    THEN [thrown |-> FALSE, s |-> console_log(s, "Invalid history index:")]
    ELSE LET s1 == [s EXCEPT !.model = NoModel]
             entry == s.history[index + 1]
             d == Model_deserialize(s1, entry.model)
         IN  IF d.thrown
               THEN [thrown |-> TRUE, s |-> d.s]
               ELSE [thrown |-> FALSE,
                     s |-> Model_emitChangeEvent(
                             [d.s EXCEPT !.model = d.model,
                                         !.currentHistoryIndex = index],
                             "Model restored")]

jumpToHistoryEntry(s, index) ==
  IF index < 0 \/ index >= Len(s.history)
    THEN [thrown |-> FALSE, s |-> console_log(s, "Invalid history index:")]
    ELSE LET s1 == [s EXCEPT !.model = NoModel]
             entry == s.history[index + 1]
             d == Model_deserialize(s1, entry.model)
         IN  IF d.thrown
               THEN [thrown |-> TRUE, s |-> d.s]
               ELSE [thrown |-> FALSE,
                     s |-> [d.s EXCEPT !.model = d.model,
                                       !.currentHistoryIndex = index]]

\* undo that steps back from the first entry too
undo_FromFirstEntry(s) ==
  IF s.currentHistoryIndex < 0
    THEN console_log(s, "No more history to undo")
    ELSE LET j == jumpToHistoryEntry(
                    [s EXCEPT !.currentHistoryIndex = @ - 1], s.currentHistoryIndex - 1)
         IN  IF j.thrown THEN j.s ELSE console_log(j.s, "Undo last action:")

\* ModelEditor.undo()
undo(s) ==
  IF s.currentHistoryIndex <= 0
    THEN console_log(s, "No more history to undo")
    ELSE LET j == jumpToHistoryEntry(
                    [s EXCEPT !.currentHistoryIndex = @ - 1], s.currentHistoryIndex - 1)
         IN  IF j.thrown THEN j.s ELSE console_log(j.s, "Undo last action:")

\* ModelEditor.redo()
\* a redo that does not look whether an entry follows
redo_PastLastEntry(s) ==
  LET j == jumpToHistoryEntry(
             [s EXCEPT !.currentHistoryIndex = @ + 1], s.currentHistoryIndex + 1)
  IN  IF j.thrown THEN j.s ELSE console_log(j.s, "Redo last action:")

redo(s) ==
  IF s.currentHistoryIndex >= Len(s.history) - 1
    THEN console_log(s, "No more history to redo")
    ELSE LET j == jumpToHistoryEntry(
                    [s EXCEPT !.currentHistoryIndex = @ + 1], s.currentHistoryIndex + 1)
         IN  IF j.thrown THEN j.s ELSE console_log(j.s, "Redo last action:")

\* ModelEditor.import(): reader.onload with the text of the chosen file
import(s, file) ==
  IF file = Unparseable
    THEN console_log(s, "Error importing model:")
    ELSE LET s1 == [s EXCEPT !.model = NoModel]
             d == Model_deserialize(s1, file)
         IN  IF d.thrown
               THEN console_log(d.s, "Error importing model:")
               ELSE LET s2 == [d.s EXCEPT !.model = d.model]
                        s3 == addHistoryEntry(clearHistoryEntries(s2, 0), "Model imported",
                                              Model_serialize(s2, s2.model))
                    IN  console_log(s3, "Model imported successfully")

-----------------------------------------------------------------------------
(* Geometry of the orthographic panels.                                    *)

Panels2d == { "canvas-top", "canvas-front", "canvas-side" }

Canvases == Panels2d \cup { "canvas-3d" }

\* getPanel2dInfo(panelId).components
Components(panelId) ==
  CASE panelId = "canvas-top" -> "xz"
    [] panelId = "canvas-front" -> "xY"
    [] panelId = "canvas-side" -> "ZY"

\* v32(v, components): vec3.swiz, an upper-case letter negates the component
v32(v, components) ==
  CASE components = "xz" -> << v.x, v.z >>
    [] components = "xY" -> << v.x, 0 - v.y >>
    [] components = "ZY" -> << 0 - v.z, 0 - v.y >>

\* Camera.screenToWorld of a panel camera at rest (position (0,0), scale 1), the
\* pointer being measured from the centre of the canvas
screenToWorld(p) == << p[1], p[2] >>

\* the square of vec2.len(vec2.sub(p, q))
DistSq(p, q) == (p[1] - q[1]) * (p[1] - q[1]) + (p[2] - q[2]) * (p[2] - q[2])

\* Vertex.isPointNear2d
Vertex_isPointNear2d(s, v, point, components) ==
  DistSq(point, v32(s.vertexHeap[v].position, components))
    <= VertexHoverRadius * VertexHoverRadius

\* pointNearLine: the distance from point to the segment start..end is <= range
pointNearLine(point, start, end, range) ==
  LET len2 == DistSq(start, end)
      k == (point[1] - start[1]) * (end[1] - start[1])
             + (point[2] - start[2]) * (end[2] - start[2])
  IN  IF len2 = 0 \/ k <= 0 THEN DistSq(point, start) <= range * range
      ELSE IF k >= len2 THEN DistSq(point, end) <= range * range
      ELSE DistSq(point, start) * len2 - k * k <= range * range * len2

\* Edge.isPointNear2d
Edge_isPointNear2d(s, e, point, components) ==
  pointNearLine(point,
                v32(s.vertexHeap[s.edgeHeap[e].a].position, components),
                v32(s.vertexHeap[s.edgeHeap[e].b].position, components),
                EdgeHoverRadius)

\* pointInPolygon: the ray from point towards +x crosses the boundary an odd number of times
pointInPolygon(point, poly) ==
  LET n == Len(poly)
      After(i) == IF i = n THEN 1 ELSE i + 1
      Crosses(i) ==
        LET p == poly[i]
            q == poly[After(i)]
        IN  /\ (p[2] > point[2]) # (q[2] > point[2])
            /\ IF q[2] > p[2]
                 THEN (point[1] - p[1]) * (q[2] - p[2]) < (q[1] - p[1]) * (point[2] - p[2])
                 ELSE (point[1] - p[1]) * (q[2] - p[2]) > (q[1] - p[1]) * (point[2] - p[2])
  IN  n >= 3 /\ Cardinality({ i \in 1..n : Crosses(i) }) % 2 = 1

\* Surface.isPointNear2d
Surface_isPointNear2d(s, f, point, components) ==
  pointInPolygon(point,
                 [i \in 1..Len(s.surfaceHeap[f].vertices) |->
                    v32(s.vertexHeap[s.surfaceHeap[f].vertices[i]].position, components)])

\* a sort that compares the height in every panel
DepthOf_Height(panelId, p) == p.y

\* the coordinate the panel looks along: what the sort of the candidates compares
DepthOf(panelId, p) ==
  CASE panelId = "canvas-top" -> p.y
    [] panelId = "canvas-front" -> p.z
    [] panelId = "canvas-side" -> p.x

\* sort(cmp) ascending (stable) and take the last element: of the candidates (a
\* subsequence of the model's list) the last one whose key no other exceeds;
\* Before(i, j) says key(i) < key(j)
Topmost(cands, Before(_, _)) ==
  cands[CHOOSE i \in 1..Len(cands) :
          /\ \A j \in 1..Len(cands) : ~Before(cands[i], cands[j])
          /\ \A j \in (i + 1)..Len(cands) : Before(cands[j], cands[i])]

\* a snap that rounds down to the multiple of the grid below
SnapToGrid_RoundsDown(x, grid) == (x \div grid) * grid

\* Math.round(x / grid) * grid
SnapToGrid(x, grid) == ((2 * x + grid) \div (2 * grid)) * grid

-----------------------------------------------------------------------------
(* ModelEditor.update(dt), block by block.  `in` is the input snapshot of  *)
(* the frame: hoveredElement, mousePosition, mousePressed, mouseReleased,  *)
(* mouseDown, keyPressed, keyReleased (one key code or ""), ctrl, shift,   *)
(* and the 3d camera: where it projects the vertices, where it is, whether *)
(* it casts a ray through the mouse and where that meets the drag plane.   *)

NoTool == ""

\* Auto-pan tool: holding the spacebar switches to the pan tool
SpacebarPan(s, in) ==
  LET s1 == IF in.keyPressed = "Space" /\ s.tool # "pan"
              THEN [s EXCEPT !.previousTool = s.tool,
                             !.tool = "pan",
                             !.spacebarPanActive = TRUE]
              ELSE s
  IN  IF in.keyReleased = "Space" /\ s1.spacebarPanActive
        THEN [s1 EXCEPT !.tool = IF s1.previousTool # NoTool /\ s1.tool = "pan"
                                   THEN s1.previousTool ELSE @,
                        !.spacebarPanActive = FALSE,
                        !.previousTool = NoTool]
        ELSE s1

\* ModelEditor.updateMovementConstraints(axis); axis = "" is the call with null
\* constraints that are toggled each on its own
updateMovementConstraints_Independent(s, axis) ==
  CASE axis = "x" -> [s EXCEPT !.movementConstraintXActive = ~@]
    [] axis = "y" -> [s EXCEPT !.movementConstraintYActive = ~@]
    [] axis = "z" -> [s EXCEPT !.movementConstraintZActive = ~@]
    [] OTHER -> [s EXCEPT !.movementConstraintXActive = FALSE,
                          !.movementConstraintYActive = FALSE,
                          !.movementConstraintZActive = FALSE]

updateMovementConstraints(s, axis) ==
  CASE axis = "x" -> [s EXCEPT !.movementConstraintXActive = ~@,
                               !.movementConstraintYActive = FALSE,
                               !.movementConstraintZActive = FALSE]
    [] axis = "y" -> [s EXCEPT !.movementConstraintXActive = FALSE,
                               !.movementConstraintYActive = ~@,
                               !.movementConstraintZActive = FALSE]
    [] axis = "z" -> [s EXCEPT !.movementConstraintXActive = FALSE,
                               !.movementConstraintYActive = FALSE,
                               !.movementConstraintZActive = ~@]
    [] OTHER -> [s EXCEPT !.movementConstraintXActive = FALSE,
                          !.movementConstraintYActive = FALSE,
                          !.movementConstraintZActive = FALSE]

\* Movement constraint keys
MovementConstraintKeys(s, in) ==
  LET s1 == CASE in.keyPressed = "KeyX" -> updateMovementConstraints(s, "x")
              [] in.keyPressed = "KeyY" -> updateMovementConstraints(s, "y")
              [] in.keyPressed = "KeyZ" -> updateMovementConstraints(s, "z")
              [] OTHER -> s
  IN  IF in.keyReleased \in { "KeyX", "KeyY", "KeyZ" }
        THEN updateMovementConstraints(s1, "")
        ELSE s1

\* entity.hovered = flag, for every reference in refs
MarkHovered(heap, refs, flag) ==
  [r \in DOMAIN heap |-> IF r \in refs THEN [heap[r] EXCEPT !.hovered = flag] ELSE heap[r]]

\* Clear all hovered states
ClearHover(s) ==
  [s EXCEPT !.vertexHeap = MarkHovered(@, Range(s.model.vertices), FALSE),
            !.edgeHeap = MarkHovered(@, Range(s.model.edges), FALSE),
            !.surfaceHeap = MarkHovered(@, Range(s.model.surfaces), FALSE),
            !.hoveredVertex = NULL,
            !.hoveredEdge = NULL,
            !.hoveredSurface = NULL]

\* Hover logic 2d, vertices: the topmost vertex under the mouse
HoverVertex2d(s, in, mouseWorld) ==
  LET components == Components(in.hoveredElement)
      hoveredVertices ==
        SelectSeq(s.model.vertices,
                  LAMBDA v : Vertex_isPointNear2d(s, v, mouseWorld, components))
      Before(a, b) ==
        DepthOf(in.hoveredElement, s.vertexHeap[a].position)
          < DepthOf(in.hoveredElement, s.vertexHeap[b].position)
  IN  IF Len(hoveredVertices) > 0
        THEN LET top == Topmost(hoveredVertices, Before)
             IN  [s EXCEPT !.hoveredVertex = top,
                           !.vertexHeap = MarkHovered(@, {top}, TRUE)]
        ELSE s

\* a hover logic that hovers an edge under a hovered vertex
HoverEdge2d_UnderVertex(s, in, mouseWorld) ==
  LET components == Components(in.hoveredElement)
      hoveredEdges ==
        SelectSeq(s.model.edges,
                  LAMBDA e : Edge_isPointNear2d(s, e, mouseWorld, components))
  IN  IF s.tool = "select" /\ Len(hoveredEdges) > 0
        THEN [s EXCEPT !.hoveredEdge = hoveredEdges[Len(hoveredEdges)],
                       !.edgeHeap = MarkHovered(@, {hoveredEdges[Len(hoveredEdges)]}, TRUE)]
        ELSE s

\* Hover logic 2d, edges: only with the select tool and no hovered vertex
HoverEdge2d(s, in, mouseWorld) ==
  LET components == Components(in.hoveredElement)
      hoveredEdges ==
        SelectSeq(s.model.edges,
                  LAMBDA e : Edge_isPointNear2d(s, e, mouseWorld, components))
      avg(e) == vec3_add(s.vertexHeap[s.edgeHeap[e].a].position,
                         s.vertexHeap[s.edgeHeap[e].b].position)
      Before(a, b) ==
        DepthOf(in.hoveredElement, avg(a)) < DepthOf(in.hoveredElement, avg(b))
  IN  IF s.tool = "select" /\ s.hoveredVertex = NULL /\ Len(hoveredEdges) > 0
        THEN LET top == Topmost(hoveredEdges, Before)
             IN  [s EXCEPT !.hoveredEdge = top,
                           !.edgeHeap = MarkHovered(@, {top}, TRUE)]
        ELSE s

\* s.vertices.reduce((sum, v) => sum + v.position.<axis>, 0), along the panel's depth
RECURSIVE DepthSum(_, _, _)
DepthSum(s, panelId, vs) ==
  IF vs = << >> THEN 0
  ELSE DepthOf(panelId, s.vertexHeap[Head(vs)].position) + DepthSum(s, panelId, Tail(vs))

\* Hover logic 2d, surfaces: only with the select tool and no hovered vertex or edge
HoverSurface2d(s, in, mouseWorld) ==
  LET components == Components(in.hoveredElement)
      hoveredSurfaces ==
        SelectSeq(s.model.surfaces,
                  LAMBDA f : Surface_isPointNear2d(s, f, mouseWorld, components))
      \* avg(a) < avg(b), the means compared without dividing
      Before(a, b) ==
        DepthSum(s, in.hoveredElement, s.surfaceHeap[a].vertices)
            * Len(s.surfaceHeap[b].vertices)
          < DepthSum(s, in.hoveredElement, s.surfaceHeap[b].vertices)
              * Len(s.surfaceHeap[a].vertices)
  IN  IF /\ s.tool = "select"
         /\ s.hoveredVertex = NULL
         /\ s.hoveredEdge = NULL
         /\ Len(hoveredSurfaces) > 0
        THEN LET top == Topmost(hoveredSurfaces, Before)
             IN  [s EXCEPT !.hoveredSurface = top,
                           !.surfaceHeap = MarkHovered(@, {top}, TRUE)]
        ELSE s

\* a hover logic that looks under the mouse whatever the tool
Hover2d_AnyTool(s, in) ==
  IF ~s.model.null /\ in.hoveredElement \in Panels2d
    THEN LET mouseWorld == screenToWorld(in.mousePosition)
         IN  HoverSurface2d(
               HoverEdge2d(HoverVertex2d(s, in, mouseWorld), in, mouseWorld),
               in, mouseWorld)
    ELSE s

\* Hover logic 2d: find topmost object under mouse in active 2d panel
Hover2d(s, in) ==
  IF /\ ~s.model.null
     /\ s.tool \in { "select", "create-edge", "create-surface" }
     /\ in.hoveredElement \in Panels2d
    THEN LET mouseWorld == screenToWorld(in.mousePosition)
         IN  HoverSurface2d(
               HoverEdge2d(HoverVertex2d(s, in, mouseWorld), in, mouseWorld),
               in, mouseWorld)
    ELSE s

\* camera.project(position, screen): where the 3d camera puts a vertex on the
\* screen, << >> when the projection is undefined.  The camera comes with the
\* input: in.projection maps the vertices of the model to their projections
Camera3d_project(in, v) == in.projection[v]

\* Vertex.isPointNear3d
Vertex_isPointNear3d(in, v) ==
  LET projected == Camera3d_project(in, v)
  IN  IF projected = << >> THEN FALSE
      ELSE DistSq(in.mousePosition, projected) <= VertexHoverRadius * VertexHoverRadius

\* Edge.isPointNear3d
Edge_isPointNear3d(s, in, e) ==
  LET a3 == Camera3d_project(in, s.edgeHeap[e].a)
      b3 == Camera3d_project(in, s.edgeHeap[e].b)
  IN  IF a3 = << >> \/ b3 = << >> THEN FALSE
      ELSE pointNearLine(in.mousePosition, a3, b3, EdgeHoverRadius)

\* Surface.isPointNear3d: the polygon of the projections that are defined
Surface_isPointNear3d(s, in, f) ==
  LET all == [i \in 1..Len(s.surfaceHeap[f].vertices) |->
                Camera3d_project(in, s.surfaceHeap[f].vertices[i])]
      projectedVertices == SelectSeq(all, LAMBDA p : p # << >>)
  IN  pointInPolygon(in.mousePosition, projectedVertices)

\* the square of vec3.len(vec3.sub(p, q)), p and q scaled by k
DistSq3(p, q, k) ==
  (p.x - k * q.x) * (p.x - k * q.x) + (p.y - k * q.y) * (p.y - k * q.y)
    + (p.z - k * q.z) * (p.z - k * q.z)

\* sort(cmp) ascending (stable) and take the first element: of the candidates
\* the first one no other is nearer than; Nearer(i, j) says distance(i) < distance(j)
Closest(cands, Nearer(_, _)) ==
  cands[CHOOSE i \in 1..Len(cands) :
          /\ \A j \in 1..Len(cands) : ~Nearer(cands[j], cands[i])
          /\ \A j \in 1..(i - 1) : Nearer(cands[i], cands[j])]

\* s.vertices.reduce((sum, v) => vec3.add(sum, v.position), vec3())
RECURSIVE PositionSum(_, _)
PositionSum(s, vs) ==
  IF vs = << >> THEN vec3(0, 0, 0)
  ELSE vec3_add(s.vertexHeap[Head(vs)].position, PositionSum(s, Tail(vs)))

\* Hover logic 3d, vertices: the vertex under the mouse closest to the camera
HoverVertex3d(s, in) ==
  LET intersectingVertices ==
        SelectSeq(s.model.vertices, LAMBDA v : Vertex_isPointNear3d(in, v))
      Nearer(a, b) ==
        DistSq3(s.vertexHeap[a].position, in.cameraPosition, 1)
          < DistSq3(s.vertexHeap[b].position, in.cameraPosition, 1)
  IN  IF Len(intersectingVertices) > 0
        THEN LET closestVertex == Closest(intersectingVertices, Nearer)
             IN  [s EXCEPT !.hoveredVertex = closestVertex,
                           !.vertexHeap = MarkHovered(@, {closestVertex}, TRUE)]
        ELSE s

\* Hover logic 3d, edges: only with the select tool and no hovered vertex; the
\* distances of the midpoints are compared doubled
HoverEdge3d(s, in) ==
  LET intersectingEdges ==
        SelectSeq(s.model.edges, LAMBDA e : Edge_isPointNear3d(s, in, e))
      twice(e) == vec3_add(s.vertexHeap[s.edgeHeap[e].a].position,
                           s.vertexHeap[s.edgeHeap[e].b].position)
      Nearer(a, b) ==
        DistSq3(twice(a), in.cameraPosition, 2) < DistSq3(twice(b), in.cameraPosition, 2)
  IN  IF s.tool = "select" /\ s.hoveredVertex = NULL /\ Len(intersectingEdges) > 0
        THEN LET closestEdge == Closest(intersectingEdges, Nearer)
             IN  [s EXCEPT !.hoveredEdge = closestEdge,
                           !.edgeHeap = MarkHovered(@, {closestEdge}, TRUE)]
        ELSE s

\* Hover logic 3d, surfaces: only with the select tool and no hovered vertex or
\* edge; the distances of the means are compared without dividing
HoverSurface3d(s, in) ==
  LET intersectingSurfaces ==
        SelectSeq(s.model.surfaces, LAMBDA f : Surface_isPointNear3d(s, in, f))
      n(f) == Len(s.surfaceHeap[f].vertices)
      sum(f) == PositionSum(s, s.surfaceHeap[f].vertices)
      Nearer(a, b) ==
        DistSq3(sum(a), in.cameraPosition, n(a)) * n(b) * n(b)
          < DistSq3(sum(b), in.cameraPosition, n(b)) * n(a) * n(a)
  IN  IF /\ s.tool = "select"
         /\ s.hoveredVertex = NULL
         /\ s.hoveredEdge = NULL
         /\ Len(intersectingSurfaces) > 0
        THEN LET closestSurface == Closest(intersectingSurfaces, Nearer)
             IN  [s EXCEPT !.hoveredSurface = closestSurface,
                           !.surfaceHeap = MarkHovered(@, {closestSurface}, TRUE)]
        ELSE s

\* Hover logic 3d: find closest object under mouse in 3d canvas
Hover3d(s, in) ==
  IF /\ ~s.model.null
     /\ s.tool \in { "select", "create-edge", "create-surface" }
     /\ in.hoveredElement = "canvas-3d"
    THEN HoverSurface3d(HoverEdge3d(HoverVertex3d(s, in), in), in)
    ELSE s

\* Track the most recently clicked and selected vertex
TrackClickedVertex(s, in) ==
  LET s1 == IF /\ s.hoveredVertex # NULL
               /\ s.vertexHeap[s.hoveredVertex].selected
               /\ in.mousePressed
              THEN [s EXCEPT !.clickedVertex = s.hoveredVertex]
              ELSE s
  IN  IF s1.hoveredVertex = NULL THEN [s1 EXCEPT !.clickedVertex = NULL] ELSE s1

\* Selection logic 2d and 3d: on mouse press, select hovered object
SelectOnPress(s, in) ==
  IF s.tool = "select" /\ in.mousePressed
    THEN LET hv == s.hoveredVertex
             sv == IF hv # NULL
                     THEN LET s1 == IF in.ctrl
                                      THEN selectVertex(s, hv, TRUE)
                                      ELSE selectVertex(deselectVertex(s, NULL), hv, TRUE)
                          IN  \* Handle dragging start
                              IF Len(s1.selectedVertices) > 0
                                THEN [s1 EXCEPT
                                        !.draggingVertex = hv,
                                        !.dragStartMouse = in.mousePosition,
                                        !.dragStartVertexPositions =
                                          << [id \in { s1.vertexHeap[v].id :
                                                         v \in Range(s1.selectedVertices) } |->
                                                LET last == CHOOSE i \in 1..Len(s1.selectedVertices) :
                                                      /\ s1.vertexHeap[s1.selectedVertices[i]].id = id
                                                      /\ \A j \in (i + 1)..Len(s1.selectedVertices) :
                                                           s1.vertexHeap[s1.selectedVertices[j]].id # id
                                                IN  s1.vertexHeap[s1.selectedVertices[last]].position] >>]
                                ELSE s1
                     ELSE s
             se == IF sv.hoveredEdge # NULL
                     THEN IF in.ctrl
                            THEN selectEdge(sv, sv.hoveredEdge, TRUE)
                            ELSE selectEdge(deselectEdge(sv, NULL), sv.hoveredEdge, TRUE)
                     ELSE sv
         IN  IF se.hoveredSurface # NULL
               THEN IF in.ctrl
                      THEN selectSurface(se, se.hoveredSurface, TRUE)
                      ELSE selectSurface(deselectSurface(se, NULL), se.hoveredSurface, TRUE)
               ELSE se
    ELSE s

\* the delta of a 2d drag before snapping, by panel
DeltaVertexPosition2d(panelId, deltaMouse) ==
  CASE panelId = "canvas-top" -> vec3(deltaMouse[1], 0, deltaMouse[2])
    [] panelId = "canvas-front" -> vec3(deltaMouse[1], 0 - deltaMouse[2], 0)
    [] panelId = "canvas-side" -> vec3(0, 0 - deltaMouse[2], 0 - deltaMouse[1])

\* position snapped to the grid, per axis
SnapPosition(p, grid) ==
  vec3(SnapToGrid(p.x, grid), SnapToGrid(p.y, grid), SnapToGrid(p.z, grid))

\* a drag that moves the dragged vertex only
MoveSelected_DraggedOnly(s, delta) ==
  LET starts == s.dragStartVertexPositions[1]
      h == s.vertexHeap
  IN  [s EXCEPT !.vertexHeap =
         [r \in DOMAIN h |->
            IF r = s.draggingVertex
              THEN [h[r] EXCEPT !.position = vec3_add(starts[h[r].id], delta)]
              ELSE h[r]],
       !.verticesMoved = IF delta # vec3(0, 0, 0) THEN TRUE ELSE @]

\* Update all selected vertex positions using the final delta
MoveSelected(s, delta) ==
  LET starts == s.dragStartVertexPositions[1]
      h == s.vertexHeap
  IN  [s EXCEPT !.vertexHeap =
         [r \in DOMAIN h |->
            IF r \in Range(s.selectedVertices) /\ h[r].id \in DOMAIN starts
              THEN [h[r] EXCEPT !.position = vec3_add(starts[h[r].id], delta)]
              ELSE h[r]],
       !.verticesMoved = IF delta # vec3(0, 0, 0) THEN TRUE ELSE @]

\* Drag logic 2d: move selected vertices while dragging
Drag2d(s, in) ==
  IF /\ s.tool = "select"
     /\ s.draggingVertex # NULL
     /\ Len(s.selectedVertices) > 0
     /\ in.hoveredElement \in Panels2d
     /\ in.mouseDown
    THEN LET worldStart == screenToWorld(s.dragStartMouse)
             worldNow == screenToWorld(in.mousePosition)
             deltaMouse == << worldNow[1] - worldStart[1], worldNow[2] - worldStart[2] >>
             deltaVertexPosition == DeltaVertexPosition2d(in.hoveredElement, deltaMouse)
             draggingInitialPosition ==
               s.dragStartVertexPositions[1][s.vertexHeap[s.draggingVertex].id]
             unsnapped == vec3_add(draggingInitialPosition, deltaVertexPosition)
             draggingNewPosition ==
               IF in.shift THEN SnapPosition(unsnapped, DefaultGridSize) ELSE unsnapped
             finalDelta == vec3_sub(draggingNewPosition, draggingInitialPosition)
         IN  MoveSelected(s, finalDelta)
    ELSE s

\* the delta of a 3d drag along the constrained axes
ConstrainedDelta3d(s, movementAmount) ==
  vec3(IF s.movementConstraintXActive THEN movementAmount ELSE 0,
       IF s.movementConstraintYActive THEN movementAmount ELSE 0,
       IF s.movementConstraintZActive THEN movementAmount ELSE 0)

\* the delta of a 3d drag: along the constrained axes by the vertical mouse
\* movement, or else in the XZ plane through the dragged vertex, to the point
\* where the ray meets it (in.intersection, << >> when it does not)
DeltaVertexPosition3d(s, in) ==
  LET draggingInitialPosition ==
        s.dragStartVertexPositions[1][s.vertexHeap[s.draggingVertex].id]
  IN  IF \/ s.movementConstraintXActive
         \/ s.movementConstraintYActive
         \/ s.movementConstraintZActive
        THEN LET movementAmount == 0 - (in.mousePosition[2] - s.dragStartMouse[2])
                 unsnapped == vec3_add(draggingInitialPosition,
                                       ConstrainedDelta3d(s, movementAmount))
             IN  vec3_sub(IF in.shift THEN SnapPosition(unsnapped, DefaultGridSize)
                                      ELSE unsnapped,
                          draggingInitialPosition)
        ELSE IF in.intersection # << >>
               THEN LET y == s.vertexHeap[s.draggingVertex].position.y
                        x == in.intersection[1]
                        z == in.intersection[2]
                    IN  vec3_sub(IF in.shift
                                   THEN vec3(SnapToGrid(x, DefaultGridSize), y,
                                             SnapToGrid(z, DefaultGridSize))
                                   ELSE vec3(x, y, z),
                                 draggingInitialPosition)
               ELSE vec3(0, 0, 0)

\* Drag logic 3d: move selected vertices while dragging
Drag3d(s, in) ==
  IF /\ s.tool = "select"
     /\ s.draggingVertex # NULL
     /\ Len(s.selectedVertices) > 0
     /\ in.hoveredElement = "canvas-3d"
     /\ in.mouseDown
     /\ in.ray
    THEN MoveSelected(s, DeltaVertexPosition3d(s, in))
    ELSE s

\* Deselection logic 2d and 3d: deselect the hovered vertex on mouse release
DeselectOnRelease(s, in) ==
  IF /\ s.tool = "select"
     /\ s.hoveredVertex # NULL
     /\ in.mouseReleased
     /\ s.clickedVertex = s.hoveredVertex
     /\ (s.dragStartMouse = << >> \/ s.dragStartMouse = in.mousePosition)
     /\ in.hoveredElement \in Canvases
    THEN [deselectVertex(s, s.hoveredVertex) EXCEPT !.clickedVertex = NULL]
    ELSE s

\* End drag on mouse release
\* an end of drag that forgets the anchor only
EndDrag_KeepsStart(s, in) ==
  IF s.draggingVertex # NULL /\ in.mouseReleased
    THEN [s EXCEPT !.draggingVertex = NULL]
    ELSE s

EndDrag(s, in) ==
  IF s.draggingVertex # NULL /\ in.mouseReleased
    THEN [s EXCEPT !.draggingVertex = NULL,
                   !.dragStartMouse = << >>,
                   !.dragStartVertexPositions = << >>]
    ELSE s

\* a release that writes the moved model into the entry at the cursor
EmitVerticesMoved_AmendsEntry(s, in) ==
  IF s.verticesMoved /\ in.mouseReleased /\ s.currentHistoryIndex >= 0
    THEN [s EXCEPT !.verticesMoved = FALSE,
                   !.history[s.currentHistoryIndex + 1].model =
                     Model_serialize(s, s.model)]
    ELSE s

\* When the mouse is released, fire the model changed event if vertices moved
EmitVerticesMoved(s, in) ==
  IF s.verticesMoved /\ in.mouseReleased
    THEN LET s1 == [s EXCEPT !.verticesMoved = FALSE]
         IN  IF ~s1.model.null THEN Model_emitChangeEvent(s1, "Vertices moved") ELSE s1
    ELSE s

\* a click on empty space that leaves the surface selection alone
DeselectOnEmptyClick_KeepsSurfaces(s, in) ==
  LET click == s.tool = "select" /\ in.mousePressed /\ in.hoveredElement \in Canvases
      s1 == IF click /\ s.hoveredVertex = NULL THEN deselectVertex(s, NULL) ELSE s
  IN  IF click /\ s1.hoveredEdge = NULL THEN deselectEdge(s1, NULL) ELSE s1

\* a click that deselects only when nothing at all is hovered
DeselectOnEmptyClick_NothingHovered(s, in) ==
  IF /\ s.tool = "select" /\ in.mousePressed /\ in.hoveredElement \in Canvases
     /\ s.hoveredVertex = NULL /\ s.hoveredEdge = NULL /\ s.hoveredSurface = NULL
    THEN deselectSurface(deselectEdge(deselectVertex(s, NULL), NULL), NULL)
    ELSE s

\* Deselect all vertices / edges / surfaces if clicking empty space
DeselectOnEmptyClick(s, in) ==
  LET click == s.tool = "select" /\ in.mousePressed /\ in.hoveredElement \in Canvases
      s1 == IF click /\ s.hoveredVertex = NULL THEN deselectVertex(s, NULL) ELSE s
      s2 == IF click /\ s1.hoveredEdge = NULL THEN deselectEdge(s1, NULL) ELSE s1
  IN  IF click /\ s2.hoveredSurface = NULL THEN deselectSurface(s2, NULL) ELSE s2

\* Create new vertices (2D panels)
CreateVertex(s, in) ==
  IF /\ s.tool = "create-vertex"
     /\ in.mousePressed
     /\ ~s.model.null
     /\ in.hoveredElement \in Panels2d
    THEN LET mouseWorld == screenToWorld(in.mousePosition)
             components == Components(in.hoveredElement)
             unsnapped ==
               CASE components = "xz" -> vec3(mouseWorld[1], 0, mouseWorld[2])
                 [] components = "xY" -> vec3(mouseWorld[1], 0 - mouseWorld[2], 0)
                 [] components = "ZY" -> vec3(0, 0 - mouseWorld[2], 0 - mouseWorld[1])
             position ==
               IF in.shift THEN SnapPosition(unsnapped, DefaultGridSize) ELSE unsnapped
         IN  Model_addVertex(s, position)
    ELSE s

\* an edge creation that a switch to the pan tool cancels as well
CreateEdge_CancelsOnPan(s, in) ==
  LET s1 == IF /\ ~s.model.null
               /\ s.tool = "create-edge"
               /\ s.hoveredVertex # NULL
               /\ in.mousePressed
              THEN IF ~s.creatingEdge.null
                     THEN LET n == NewEdge(s, s.creatingEdge.a, s.hoveredVertex)
                          IN  [Model_addEdge(n.s, n.ref) EXCEPT
                                 !.creatingEdge = NoCreatingEdge]
                     ELSE [s EXCEPT !.creatingEdge =
                                      [null |-> FALSE, a |-> s.hoveredVertex]]
              ELSE s
      \* this.creatingEdge.a.hovered = true
      s2 == IF ~s1.creatingEdge.null
              THEN [s1 EXCEPT !.vertexHeap = MarkHovered(@, {s1.creatingEdge.a}, TRUE)]
              ELSE s1
      \* cancel by pressing Escape
      s3 == IF s2.tool = "create-edge" /\ ~s2.creatingEdge.null /\ in.keyPressed = "Escape"
              THEN [s2 EXCEPT !.creatingEdge = NoCreatingEdge]
              ELSE s2
  IN  \* cancel by switching tools (unless to the pan tool)
      IF s3.tool # "create-edge" /\ ~s3.creatingEdge.null
        THEN [s3 EXCEPT !.creatingEdge = NoCreatingEdge]
        ELSE s3

\* Create new edges, and the two ways of cancelling the creation
CreateEdge(s, in) ==
  LET s1 == IF /\ ~s.model.null
               /\ s.tool = "create-edge"
               /\ s.hoveredVertex # NULL
               /\ in.mousePressed
              THEN IF ~s.creatingEdge.null
                     THEN LET n == NewEdge(s, s.creatingEdge.a, s.hoveredVertex)
                          IN  [Model_addEdge(n.s, n.ref) EXCEPT
                                 !.creatingEdge = NoCreatingEdge]
                     ELSE [s EXCEPT !.creatingEdge =
                                      [null |-> FALSE, a |-> s.hoveredVertex]]
              ELSE s
      \* this.creatingEdge.a.hovered = true
      s2 == IF ~s1.creatingEdge.null
              THEN [s1 EXCEPT !.vertexHeap = MarkHovered(@, {s1.creatingEdge.a}, TRUE)]
              ELSE s1
      \* cancel by pressing Escape
      s3 == IF s2.tool = "create-edge" /\ ~s2.creatingEdge.null /\ in.keyPressed = "Escape"
              THEN [s2 EXCEPT !.creatingEdge = NoCreatingEdge]
              ELSE s2
  IN  \* cancel by switching tools (unless to the pan tool)
      IF s3.tool \notin { "create-edge", "pan" } /\ ~s3.creatingEdge.null
        THEN [s3 EXCEPT !.creatingEdge = NoCreatingEdge]
        ELSE s3

\* a surface creation that closes the polygon on any vertex of the list
CreateSurface_ClosesOnAnyVertex(s, in) ==
  LET hv == s.hoveredVertex
      cs == s.creatingSurface
      s1 == IF /\ ~s.model.null
               /\ s.tool = "create-surface"
               /\ hv # NULL
               /\ in.mousePressed
              THEN IF ~cs.null
                     THEN IF hv \notin Range(cs.vertices)
                            THEN [s EXCEPT !.creatingSurface.vertices = Append(@, hv)]
                          ELSE IF Len(cs.vertices) >= 3
                            THEN LET n == NewSurface(s, cs.vertices)
                                 IN  [Model_addSurface(n.s, n.ref) EXCEPT
                                        !.creatingSurface = NoCreatingSurface]
                          ELSE [s EXCEPT !.creatingSurface.vertices =
                                           SelectSeq(@, LAMBDA v : v # hv)]
                     ELSE [s EXCEPT !.creatingSurface =
                                      [null |-> FALSE, vertices |-> << hv >>]]
              ELSE s
      \* this.creatingSurface.vertices.forEach(v => (v.hovered = true))
      s2 == IF ~s1.creatingSurface.null
              THEN [s1 EXCEPT !.vertexHeap =
                                MarkHovered(@, Range(s1.creatingSurface.vertices), TRUE)]
              ELSE s1
      s3 == IF /\ s2.tool = "create-surface"
               /\ ~s2.creatingSurface.null
               /\ in.keyPressed = "Escape"
              THEN [s2 EXCEPT !.creatingSurface = NoCreatingSurface]
              ELSE s2
  IN  IF s3.tool \notin { "create-surface", "pan" } /\ ~s3.creatingSurface.null
        THEN [s3 EXCEPT !.creatingSurface = NoCreatingSurface]
        ELSE s3

\* Create new surfaces, and the two ways of cancelling the creation
\* a create-surface tool that closes a loop of two vertices
CreateSurface_ClosesPairs(s, in) ==
  LET hv == s.hoveredVertex
      cs == s.creatingSurface
      s1 == IF /\ ~s.model.null
               /\ s.tool = "create-surface"
               /\ hv # NULL
               /\ in.mousePressed
              THEN IF ~cs.null
                     THEN IF hv \notin Range(cs.vertices)
                            THEN [s EXCEPT !.creatingSurface.vertices = Append(@, hv)]
                          ELSE IF Len(cs.vertices) >= 2 /\ cs.vertices[1] = hv
                            THEN LET n == NewSurface(s, cs.vertices)
                                 IN  [Model_addSurface(n.s, n.ref) EXCEPT
                                        !.creatingSurface = NoCreatingSurface]
                          ELSE [s EXCEPT !.creatingSurface.vertices =
                                           SelectSeq(@, LAMBDA v : v # hv)]
                     ELSE [s EXCEPT !.creatingSurface =
                                      [null |-> FALSE, vertices |-> << hv >>]]
              ELSE s
      \* this.creatingSurface.vertices.forEach(v => (v.hovered = true))
      s2 == IF ~s1.creatingSurface.null
              THEN [s1 EXCEPT !.vertexHeap =
                                MarkHovered(@, Range(s1.creatingSurface.vertices), TRUE)]
              ELSE s1
      s3 == IF /\ s2.tool = "create-surface"
               /\ ~s2.creatingSurface.null
               /\ in.keyPressed = "Escape"
              THEN [s2 EXCEPT !.creatingSurface = NoCreatingSurface]
              ELSE s2
  IN  IF s3.tool \notin { "create-surface", "pan" } /\ ~s3.creatingSurface.null
        THEN [s3 EXCEPT !.creatingSurface = NoCreatingSurface]
        ELSE s3

CreateSurface(s, in) ==
  LET hv == s.hoveredVertex
      cs == s.creatingSurface
      s1 == IF /\ ~s.model.null
               /\ s.tool = "create-surface"
               /\ hv # NULL
               /\ in.mousePressed
              THEN IF ~cs.null
                     THEN IF hv \notin Range(cs.vertices)
                            THEN [s EXCEPT !.creatingSurface.vertices = Append(@, hv)]
                          ELSE IF Len(cs.vertices) >= 3 /\ cs.vertices[1] = hv
                            THEN LET n == NewSurface(s, cs.vertices)
                                 IN  [Model_addSurface(n.s, n.ref) EXCEPT
                                        !.creatingSurface = NoCreatingSurface]
                          ELSE [s EXCEPT !.creatingSurface.vertices =
                                           SelectSeq(@, LAMBDA v : v # hv)]
                     ELSE [s EXCEPT !.creatingSurface =
                                      [null |-> FALSE, vertices |-> << hv >>]]
              ELSE s
      \* this.creatingSurface.vertices.forEach(v => (v.hovered = true))
      s2 == IF ~s1.creatingSurface.null
              THEN [s1 EXCEPT !.vertexHeap =
                                MarkHovered(@, Range(s1.creatingSurface.vertices), TRUE)]
              ELSE s1
      s3 == IF /\ s2.tool = "create-surface"
               /\ ~s2.creatingSurface.null
               /\ in.keyPressed = "Escape"
              THEN [s2 EXCEPT !.creatingSurface = NoCreatingSurface]
              ELSE s2
  IN  IF s3.tool \notin { "create-surface", "pan" } /\ ~s3.creatingSurface.null
        THEN [s3 EXCEPT !.creatingSurface = NoCreatingSurface]
        ELSE s3

\* selectedVertices.forEach(v => this.model.removeVertex(v))
RECURSIVE RemoveVertices(_, _)
RemoveVertices(s, vs) ==
  IF vs = << >> THEN s ELSE RemoveVertices(Model_removeVertex(s, Head(vs)), Tail(vs))

\* selectedEdges.forEach(e => this.model.removeEdge(e))
RECURSIVE RemoveEdges(_, _)
RemoveEdges(s, es) ==
  IF es = << >> THEN s ELSE RemoveEdges(Model_removeEdge(s, Head(es)), Tail(es))

\* selectedSurfaces.forEach(s => this.model.removeSurface(s))
RECURSIVE RemoveSurfaces(_, _)
RemoveSurfaces(s, fs) ==
  IF fs = << >> THEN s ELSE RemoveSurfaces(Model_removeSurface(s, Head(fs)), Tail(fs))

\* Delete selected objects with Delete key
DeleteSelected(s, in) ==
  IF s.tool = "select" /\ in.keyPressed = "Delete" /\ ~s.model.null
    THEN LET s1 == IF Len(s.selectedVertices) > 0
                     THEN deselectVertex(RemoveVertices(s, s.selectedVertices), NULL)
                     ELSE s
             s2 == IF Len(s1.selectedEdges) > 0
                     THEN [RemoveEdges(s1, s1.selectedEdges) EXCEPT !.selectedEdges = << >>]
                     ELSE s1
         IN  IF Len(s2.selectedSurfaces) > 0
               THEN [RemoveSurfaces(s2, s2.selectedSurfaces) EXCEPT
                       !.selectedSurfaces = << >>]
               ELSE s2
    ELSE s

\* InputManager.update(): the button and pointer state the next frame starts from
InputManager_update(s, in) ==
  [s EXCEPT !.mouseLeftDown = in.mouseDown, !.hoveredElement = in.hoveredElement]

\* the blocks of ModelEditor.update(dt), numbered in the order of the source
updateBlock(k, s, in) ==
  CASE k = 1 -> SpacebarPan(s, in)
    [] k = 2 -> MovementConstraintKeys(s, in)
    [] k = 3 -> ClearHover(s)
    [] k = 4 -> Hover2d(s, in)
    [] k = 5 -> Hover3d(s, in)
    [] k = 6 -> TrackClickedVertex(s, in)
    [] k = 7 -> SelectOnPress(s, in)
    [] k = 8 -> Drag2d(s, in)
    [] k = 9 -> Drag3d(s, in)
    [] k = 10 -> DeselectOnRelease(s, in)
    [] k = 11 -> EndDrag(s, in)
    [] k = 12 -> EmitVerticesMoved(s, in)
    [] k = 13 -> DeselectOnEmptyClick(s, in)
    [] k = 14 -> CreateVertex(s, in)
    [] k = 15 -> CreateEdge(s, in)
    [] k = 16 -> CreateSurface(s, in)
    [] k = 17 -> DeleteSelected(s, in)
    [] k = 18 -> InputManager_update(s, in)

\* the editor after the first k blocks of update(dt)
RECURSIVE updateThrough(_, _, _)
updateThrough(k, s, in) ==
  IF k = 0 THEN s
  ELSE CHOOSE after \in { updateBlock(k, before, in) :
                            before \in { updateThrough(k - 1, s, in) } } : TRUE

\* ModelEditor.update(dt): its blocks, in the order of the source
update(s, in) == updateThrough(18, s, in)

-----------------------------------------------------------------------------
(* Object identity has no order: when a handler returns, the objects the   *)
(* editor can still reach are numbered in the order its fields list them,  *)
(* and the objects it cannot reach are dropped from the heaps.             *)

\* q without the repetitions of its elements and without NULL
RECURSIVE Distinct(_, _)
Distinct(q, seen) ==
  IF q = << >> THEN << >>
  ELSE IF Head(q) \in seen \/ Head(q) = NULL
         THEN Distinct(Tail(q), seen)
         ELSE << Head(q) >> \o Distinct(Tail(q), seen \cup {Head(q)})

\* the vertices the edges es hold, in order
RECURSIVE EndsOf(_, _)
EndsOf(s, es) ==
  IF es = << >> THEN << >>
  ELSE << s.edgeHeap[Head(es)].a, s.edgeHeap[Head(es)].b >> \o EndsOf(s, Tail(es))

\* the vertices the surfaces fs hold, in order
RECURSIVE CornersOf(_, _)
CornersOf(s, fs) ==
  IF fs = << >> THEN << >>
  ELSE s.surfaceHeap[Head(fs)].vertices \o CornersOf(s, Tail(fs))

\* the edges the editor holds
LiveEdges(s) ==
  Distinct(s.model.edges \o s.selectedEdges \o << s.hoveredEdge >>, {})

\* the surfaces the editor holds
LiveSurfaces(s) ==
  Distinct(s.model.surfaces \o s.selectedSurfaces \o << s.hoveredSurface >>, {})

\* the vertices the editor holds, directly or through a held edge or surface
LiveVertices(s) ==
  Distinct(s.model.vertices \o s.selectedVertices
             \o << s.hoveredVertex, s.clickedVertex, s.draggingVertex, s.creatingEdge.a >>
             \o s.creatingSurface.vertices
             \o EndsOf(s, LiveEdges(s)) \o CornersOf(s, LiveSurfaces(s)),
           {})

\* the new reference of the object r, live listing the objects that stay
Renamed(live, r) == IF r = NULL THEN NULL ELSE IndexOf(live, r) + 1

RenamedAll(live, q) == [i \in 1..Len(q) |-> Renamed(live, q[i])]

\* s with its objects renumbered and the unreachable ones dropped
Collect(s) ==
  LET lv == LiveVertices(s)
      le == LiveEdges(s)
      lf == LiveSurfaces(s)
  IN  [s EXCEPT
         !.vertexHeap = [i \in 1..Len(lv) |-> s.vertexHeap[lv[i]]],
         !.edgeHeap =
           [i \in 1..Len(le) |->
              [s.edgeHeap[le[i]] EXCEPT !.a = Renamed(lv, @), !.b = Renamed(lv, @)]],
         !.surfaceHeap =
           [i \in 1..Len(lf) |->
              [s.surfaceHeap[lf[i]] EXCEPT !.vertices = RenamedAll(lv, @)]],
         !.model.vertices = RenamedAll(lv, @),
         !.model.edges = RenamedAll(le, @),
         !.model.surfaces = RenamedAll(lf, @),
         !.selectedVertices = RenamedAll(lv, @),
         !.selectedEdges = RenamedAll(le, @),
         !.selectedSurfaces = RenamedAll(lf, @),
         !.hoveredVertex = Renamed(lv, @),
         !.hoveredEdge = Renamed(le, @),
         !.hoveredSurface = Renamed(lf, @),
         !.clickedVertex = Renamed(lv, @),
         !.draggingVertex = Renamed(lv, @),
         !.creatingEdge.a = Renamed(lv, @),
         !.creatingSurface.vertices = RenamedAll(lv, @)]

\* the elements of the set of numbers S, in increasing order
RECURSIVE Sorted(_)
Sorted(S) ==
  IF S = {} THEN << >>
  ELSE LET least == CHOOSE x \in S : \A y \in S : x <= y
       IN  << least >> \o Sorted(S \ {least})

\* the vertex ids a tree mentions, in the order it mentions them
TreeVertexIdSeq(data) ==
  LET RECURSIVE OfEdges(_)
      OfEdges(es) ==
        IF es = << >> THEN << >>
        ELSE << Head(es).a, Head(es).b >> \o OfEdges(Tail(es))
      RECURSIVE OfSurfaces(_)
      OfSurfaces(fs) ==
        IF fs = << >> THEN << >> ELSE Head(fs).vertices \o OfSurfaces(Tail(fs))
  IN  [i \in 1..Len(data.vertices) |-> data.vertices[i].id]
        \o OfEdges(data.edges) \o OfSurfaces(data.surfaces)

\* the snapshots of the history, in order
HistoryTrees(s) == [i \in 1..Len(s.history) |-> s.history[i].model]

\* the snapshots the last notifications carried, in order
NotifiedTrees(s) == [i \in 1..Len(s.notifications) |-> s.notifications[i].model]

\* q1 \o q2 \o ... for the sequence of sequences qs
RECURSIVE Flatten(_)
Flatten(qs) == IF qs = << >> THEN << >> ELSE Head(qs) \o Flatten(Tail(qs))

\* the vertex ids the trees mention, in order
VertexIdsOfTrees(trees) ==
  Flatten([i \in 1..Len(trees) |-> TreeVertexIdSeq(trees[i])])

\* the edge ids the trees mention, in order
EdgeIdsOfTrees(trees) ==
  Flatten([i \in 1..Len(trees) |->
             [j \in 1..Len(trees[i].edges) |-> trees[i].edges[j].id]])

\* the surface ids the trees mention, in order
SurfaceIdsOfTrees(trees) ==
  Flatten([i \in 1..Len(trees) |->
             [j \in 1..Len(trees[i].surfaces) |-> trees[i].surfaces[j].id]])

\* the ids the files carry: uuid() never draws one of them
FileVertexIds == UNION { TreeVertexIds(d) : d \in AllFiles \ {Unparseable} }

FileEdgeIds == UNION { TreeEdgeIds(d) : d \in AllFiles \ {Unparseable} }

FileSurfaceIds == UNION { TreeSurfaceIds(d) : d \in AllFiles \ {Unparseable} }

\* the ids uuid() drew that the editor still holds, in the order its fields list
\* them: the history first, the observers last
DrawnVertexIds(s) ==
  Distinct(VertexIdsOfTrees(HistoryTrees(s))
             \o [i \in 1..Len(s.vertexHeap) |-> s.vertexHeap[i].id]
             \o (IF s.dragStartVertexPositions = << >> THEN << >>
                 ELSE Sorted(DOMAIN s.dragStartVertexPositions[1]))
             \o VertexIdsOfTrees(NotifiedTrees(s)),
           FileVertexIds)

DrawnEdgeIds(s) ==
  Distinct(EdgeIdsOfTrees(HistoryTrees(s))
             \o [i \in 1..Len(s.edgeHeap) |-> s.edgeHeap[i].id]
             \o EdgeIdsOfTrees(NotifiedTrees(s)),
           FileEdgeIds)

DrawnSurfaceIds(s) ==
  Distinct(SurfaceIdsOfTrees(HistoryTrees(s))
             \o [i \in 1..Len(s.surfaceHeap) |-> s.surfaceHeap[i].id]
             \o SurfaceIdsOfTrees(NotifiedTrees(s)),
           FileSurfaceIds)

\* the id that stands for id: the k-th id drawn becomes the k-th id no file carries
RenamedId(drawn, fixed, id) ==
  IF id = NoId \/ id \in fixed THEN id
  ELSE SmallestUnusedSeq(fixed, Len(drawn))[IndexOf(drawn, id) + 1]

\* a serialization tree with its drawn ids renamed
RenamedTree(data, V(_), E(_), F(_)) ==
  [name |-> data.name,
   vertices |-> [i \in 1..Len(data.vertices) |->
                   [data.vertices[i] EXCEPT !.id = V(@)]],
   edges |-> [i \in 1..Len(data.edges) |->
                [data.edges[i] EXCEPT !.id = E(@), !.a = V(@), !.b = V(@)]],
   surfaces |-> [i \in 1..Len(data.surfaces) |->
                   [data.surfaces[i] EXCEPT
                      !.id = F(@),
                      !.vertices = [j \in 1..Len(@) |-> V(@[j])]]]]

\* uuid() has no order either: s (already collected) with the ids it drew renamed
RenameIds(s) ==
  LET dv == DrawnVertexIds(s)
      de == DrawnEdgeIds(s)
      df == DrawnSurfaceIds(s)
      V(id) == RenamedId(dv, FileVertexIds, id)
      E(id) == RenamedId(de, FileEdgeIds, id)
      F(id) == RenamedId(df, FileSurfaceIds, id)
      starts == s.dragStartVertexPositions
  IN  [s EXCEPT
         !.vertexHeap = [i \in 1..Len(@) |-> [s.vertexHeap[i] EXCEPT !.id = V(@)]],
         !.edgeHeap = [i \in 1..Len(@) |-> [s.edgeHeap[i] EXCEPT !.id = E(@)]],
         !.surfaceHeap = [i \in 1..Len(@) |-> [s.surfaceHeap[i] EXCEPT !.id = F(@)]],
         !.history = [i \in 1..Len(@) |->
                        [s.history[i] EXCEPT !.model = RenamedTree(@, V, E, F)]],
         !.notifications = [i \in 1..Len(@) |->
                              [s.notifications[i] EXCEPT !.model = RenamedTree(@, V, E, F)]],
         !.dragStartVertexPositions =
           IF starts = << >> THEN << >>
           ELSE << [id \in { V(k) : k \in DOMAIN starts[1] } |->
                      starts[1][CHOOSE k \in DOMAIN starts[1] : V(k) = id]] >>]

\* the bounds of the exploration of the editor, and of the model's own methods
EditorBounds ==
  [vertices |-> MaxVertices, edges |-> MaxEdges, surfaces |-> MaxSurfaces,
   history |-> MaxHistory]

ModelBounds ==
  [vertices |-> MaxModelVertices, edges |-> MaxModelEdges,
   surfaces |-> MaxModelSurfaces, history |-> MaxModelHistory]

\* the exploration stays within the bounds
WithinBounds(s, bounds) ==
  /\ Len(s.model.vertices) <= bounds.vertices
  /\ Len(s.model.edges) <= bounds.edges
  /\ Len(s.model.surfaces) <= bounds.surfaces
  /\ Len(s.history) <= bounds.history
  /\ Len(s.selectedVertices) <= MaxSelected
  /\ Len(s.selectedEdges) <= MaxSelected
  /\ Len(s.selectedSurfaces) <= MaxSelected
  /\ Len(s.creatingSurface.vertices) <= MaxCorners

\* the fields of the editor become those of c
Install(c) ==
  /\ vertexHeap' = c.vertexHeap
  /\ edgeHeap' = c.edgeHeap
  /\ surfaceHeap' = c.surfaceHeap
  /\ model' = c.model
  /\ history' = c.history
  /\ currentHistoryIndex' = c.currentHistoryIndex
  /\ tool' = c.tool
  /\ previousTool' = c.previousTool
  /\ spacebarPanActive' = c.spacebarPanActive
  /\ hoveredVertex' = c.hoveredVertex
  /\ hoveredEdge' = c.hoveredEdge
  /\ hoveredSurface' = c.hoveredSurface
  /\ clickedVertex' = c.clickedVertex
  /\ selectedVertices' = c.selectedVertices
  /\ selectedEdges' = c.selectedEdges
  /\ selectedSurfaces' = c.selectedSurfaces
  /\ draggingVertex' = c.draggingVertex
  /\ dragStartMouse' = c.dragStartMouse
  /\ dragStartVertexPositions' = c.dragStartVertexPositions
  /\ verticesMoved' = c.verticesMoved
  /\ creatingEdge' = c.creatingEdge
  /\ creatingSurface' = c.creatingSurface
  /\ movementConstraintXActive' = c.movementConstraintXActive
  /\ movementConstraintYActive' = c.movementConstraintYActive
  /\ movementConstraintZActive' = c.movementConstraintZActive
  /\ mouseLeftDown' = c.mouseLeftDown
  /\ hoveredElement' = c.hoveredElement
  /\ notifications' = c.notifications
  /\ console' = c.console
  /\ removedControllers' = c.removedControllers

\* the handler returns: s becomes the state of the editor
CommitWithin(s, bounds) ==
  \E returned \in { s } :
    /\ WithinBounds(returned, bounds)
    /\ \E collected \in { Collect(returned) } :
         \E renamed \in { RenameIds(collected) } :
           Install(renamed)
    /\ UNCHANGED << lastInput, probeIn, probeOut >>

Commit(s) == CommitWithin(s, EditorBounds)

\* the input of a frame as the observer keeps it: the projections listed in the
\* order of the model's vertices
Observed(in) ==
  [in EXCEPT !.projection =
     [i \in 1..Len(model.vertices) |-> in.projection[model.vertices[i]]]]

\* the handler returns as in CommitWithin, and the observer keeps what the
\* handler was given: << >>, or the input of the frame
CommitObserved(s, bounds, given) ==
  \E returned \in { s } :
    /\ WithinBounds(returned, bounds)
    /\ \E collected \in { Collect(returned) } :
         \E renamed \in { RenameIds(collected) } :
           Install(renamed)
    /\ lastInput' = given
    /\ UNCHANGED << probeIn, probeOut >>

-----------------------------------------------------------------------------
(* The editor after its constructor, which ends with reset().              *)

InitEditor ==
  /\ vertexHeap = << >>
  /\ edgeHeap = << >>
  /\ surfaceHeap = << >>
  /\ model = NewModel("")
  /\ history = << >>
  /\ currentHistoryIndex = -1
  /\ tool = "select"
  /\ previousTool = NoTool
  /\ spacebarPanActive = FALSE
  /\ hoveredVertex = NULL
  /\ hoveredEdge = NULL
  /\ hoveredSurface = NULL
  /\ clickedVertex = NULL
  /\ selectedVertices = << >>
  /\ selectedEdges = << >>
  /\ selectedSurfaces = << >>
  /\ draggingVertex = NULL
  /\ dragStartMouse = << >>
  /\ dragStartVertexPositions = << >>
  /\ verticesMoved = FALSE
  /\ creatingEdge = NoCreatingEdge
  /\ creatingSurface = NoCreatingSurface
  /\ movementConstraintXActive = FALSE
  /\ movementConstraintYActive = FALSE
  /\ movementConstraintZActive = FALSE
  /\ mouseLeftDown = FALSE
  /\ hoveredElement = ""
  /\ notifications = << >>
  /\ console = << >>
  /\ removedControllers = 0
  /\ lastInput = << >>

Init ==
  /\ InitEditor
  /\ probeIn = << >>
  /\ probeOut = << >>

-----------------------------------------------------------------------------
(* The handlers of the toolbar, the inspector and the history panel.       *)

\* the tools of the toolbar the exploration selects
Tools == { "select", "create-vertex", "create-edge" }

\* a button of the page is clicked with the pointer: it has left the canvases,
\* with the left button up, and a frame has run since
ButtonClick == ~mouseLeftDown /\ hoveredElement = ""

\* toolbar button 'reset'; the user answers the confirm() dialog
Reset ==
  \E confirmed \in BOOLEAN :
    /\ ButtonClick
    /\ Commit(reset(Editor, confirmed))

\* a selectable toolbar button
SetTool ==
  \E t \in Tools :
    /\ ButtonClick
    /\ t # tool
    /\ Commit(setTool(Editor, t))

\* toolbar button 'import', a file chosen, reader.onload
Import ==
  \E file \in ImportFiles :
    /\ ButtonClick
    /\ Commit(import(Editor, file))

\* toolbar button 'undo'
Undo == ButtonClick /\ Commit(undo(Editor))

\* toolbar button 'redo'
Redo == ButtonClick /\ Commit(redo(Editor))

\* a 'jump' button of the history panel: one per entry of the history
JumpToHistoryEntry ==
  \E index \in 0..(Len(history) - 1) :
    /\ ButtonClick
    /\ Commit(jumpToHistoryEntry(Editor, index).s)

\* the 'delete' button of a vertex's inspector folder
InspectorRemoveVertex ==
  \E v \in Range(model.vertices) :
    /\ ButtonClick
    /\ Commit(removeVertex(Editor, v))

\* the 'delete' button of an edge's inspector folder
InspectorRemoveEdge ==
  \E e \in Range(model.edges) :
    /\ ButtonClick
    /\ Commit(removeEdge(Editor, e))

\* the 'delete' button of a surface's inspector folder
InspectorRemoveSurface ==
  \E f \in Range(model.surfaces) :
    /\ ButtonClick
    /\ Commit(removeSurface(Editor, f))

-----------------------------------------------------------------------------
(* One animation frame: InputManager's snapshot, then ModelEditor.update.  *)

\* where the pointer may be, measured from the centre of the hovered panel
Pointers == { << 0, 0 >>, << 50, 0 >> }

\* the panels the pointer may be over
HoveredElements == { "canvas-top", "" }

\* the keys a frame may see go down
Keys == { "Delete", "Escape" }

\* what happened since the last frame: nothing but a move, a button edge, a key
Events == { "move", "press", "release" } \cup Keys

\* the input snapshot of a frame
Input(el, p, ev, ctrl, shift) ==
  [hoveredElement |-> el,
   mousePosition |-> p,
   mousePressed |-> (ev = "press"),
   mouseReleased |-> (ev = "release"),
   mouseDown |-> (ev = "press" \/ (ev # "release" /\ mouseLeftDown)),
   keyPressed |-> IF ev \in Keys THEN ev ELSE "",
   keyReleased |-> "",
   ctrl |-> ctrl,
   shift |-> shift,
   projection |-> << >>,
   cameraPosition |-> vec3(0, 0, 0),
   ray |-> FALSE,
   intersection |-> << >>]

\* requestAnimationFrame: loop() calls update(dt)
Frame ==
  \E el \in HoveredElements, p \in Pointers, ev \in Events :
    \* the button goes down on a canvas, with a creation tool only: nothing is
    \* selected or dragged; the pointer stays on the canvas until it is released
    /\ ev = "press" => ~mouseLeftDown /\ tool # "select" /\ el # ""
    /\ ev = "release" => mouseLeftDown
    /\ mouseLeftDown => el = hoveredElement
    \* off the canvases the pointer has no position of interest
    /\ el = "" => p = << 0, 0 >>
    /\ Commit(update(Editor, Input(el, p, ev, FALSE, FALSE)))

Next ==
  \/ Reset
  \/ SetTool
  \/ Import
  \/ Undo
  \/ Redo
  \/ JumpToHistoryEntry
  \/ InspectorRemoveVertex
  \/ InspectorRemoveEdge
  \/ Frame

Spec == Init /\ [][Next]_vars

-----------------------------------------------------------------------------
(* The model driven through its own methods, the editor listening: each    *)
(* action is one call on the live model, with arguments the model holds.   *)

\* where addVertex may put a vertex
ModelPositions == { vec3(0, 0, 0), vec3(50, 0, 0) }

\* model.addVertex(position)
AddVertex ==
  \E position \in ModelPositions :
    CommitWithin(Model_addVertex(Editor, position), ModelBounds)

\* model.removeVertex(v), v a vertex of the model
RemoveVertex ==
  \E v \in Range(model.vertices) :
    CommitWithin(Model_removeVertex(Editor, v), ModelBounds)

\* model.addEdge(a, b), a and b vertices of the model
AddEdge ==
  \E a, b \in Range(model.vertices) :
    CommitWithin(Model_addEdgeBetween(Editor, a, b), ModelBounds)

\* model.removeEdge(e), e an edge of the model
RemoveEdge ==
  \E e \in Range(model.edges) :
    CommitWithin(Model_removeEdge(Editor, e), ModelBounds)

\* model.addSurface(vertices), the corners three vertices of the model in its order
AddSurface ==
  /\ Len(model.vertices) >= 3
  /\ CommitWithin(Model_addSurfaceOf(Editor, SubSeq(model.vertices, 1, 3)), ModelBounds)

\* model.removeSurface(f), f a surface of the model
RemoveSurface ==
  \E f \in Range(model.surfaces) :
    CommitWithin(Model_removeSurface(Editor, f), ModelBounds)

\* the triangle file is imported: a model with an edge and a surface at once
ImportTriangle == CommitWithin(import(Editor, FileTriangle), ModelBounds)

\* the labels emitChangeEvent is called with: its default, and the label of
\* the model name field
EmitLabels == { "", "Model name changed" }

\* model.emitChangeEvent(action)
EmitChangeEvent ==
  \E action \in EmitLabels :
    CommitWithin(Model_emitChangeEvent(Editor, action), ModelBounds)

ModelNext ==
  \/ AddVertex
  \/ RemoveVertex
  \/ AddEdge
  \/ RemoveEdge
  \/ AddSurface
  \/ RemoveSurface
  \/ ImportTriangle
  \/ EmitChangeEvent

ModelSpec == Init /\ [][ModelNext]_vars

-----------------------------------------------------------------------------
(* The select tool.  The triangle file is imported; in SelectSpec the      *)
(* pointer clicks in the top panel, with and without Ctrl; in DragSpec it  *)
(* drags vertices in the top panel and in the 3d canvas, with and without  *)
(* Shift, between presses of Escape, Space and Y.                          *)

SelectBounds ==
  [vertices |-> MaxModelVertices, edges |-> MaxModelEdges,
   surfaces |-> MaxModelSurfaces, history |-> MaxSelectHistory]

\* the import button, the triangle file chosen, the editor still empty
SelectImport ==
  /\ ButtonClick
  /\ model.vertices = << >>
  /\ CommitWithin(import(Editor, FileTriangle), SelectBounds)

\* the tools of the toolbar the select-tool exploration selects
SelectTools == { "select", "create-edge" }

\* a selectable toolbar button
SelectSetTool ==
  \E t \in SelectTools :
    /\ ButtonClick
    /\ t # tool
    /\ CommitWithin(setTool(Editor, t), SelectBounds)

\* the 'select' button of a vertex's inspector folder: selectVertex(this, false)
InspectorSelectVertex ==
  \E v \in Range(model.vertices) :
    /\ ButtonClick
    /\ CommitWithin(selectVertex(Editor, v, FALSE), SelectBounds)

\* the 'select' button of an edge's inspector folder: selectEdge(this, false)
InspectorSelectEdge ==
  \E e \in Range(model.edges) :
    /\ ButtonClick
    /\ CommitWithin(selectEdge(Editor, e, FALSE), SelectBounds)

\* the 'select' button of a surface's inspector folder: selectSurface(this, false)
InspectorSelectSurface ==
  \E f \in Range(model.surfaces) :
    /\ ButtonClick
    /\ CommitWithin(selectSurface(Editor, f, FALSE), SelectBounds)

\* where the pointer goes in the top panel: on the first vertex of the file, on
\* its second, on the edge between them, inside the triangle, and outside it
SelectPointers == { << 0, 0 >>, << 50, 0 >>, << 25, 0 >>, << 15, 15 >>, << 50, 50 >> }

\* the InputManager state of a frame: the pointer moves, the left button goes
\* down or up, or a key goes down or up (ev); closest is the one vertex the 3d
\* camera projects, to where the mouse is (NULL when it projects none),
\* intersection where its ray meets the plane of the dragged vertex
SelectInput(el, p, ev, ctrl, shift, closest, intersection) ==
  [hoveredElement |-> el,
   mousePosition |-> p,
   mousePressed |-> (ev = "press"),
   mouseReleased |-> (ev = "release"),
   mouseDown |-> (ev = "press" \/ (ev # "release" /\ mouseLeftDown)),
   keyPressed |-> IF ev \in { "Delete", "Escape", "Space", "KeyY" } THEN ev ELSE "",
   keyReleased |-> CASE ev = "SpaceUp" -> "Space" [] ev = "KeyYUp" -> "KeyY" [] OTHER -> "",
   ctrl |-> ctrl,
   shift |-> shift,
   projection |-> [v \in Range(model.vertices) |-> IF v = closest THEN p ELSE << >>],
   cameraPosition |-> vec3(0, 0, 0),
   ray |-> (el = "canvas-3d"),
   intersection |-> intersection]

\* requestAnimationFrame: loop() calls update(dt); the pointer clicks
SelectFrame ==
  \E el \in { "canvas-top", "" }, p \in SelectPointers,
     ev \in { "move", "press", "release" }, ctrl \in BOOLEAN :
    \* the button goes down on the canvas and up in the next frame, the pointer
    \* still on the canvas
    /\ ev = "press" <=> ~mouseLeftDown /\ el # ""
    /\ ev = "release" <=> mouseLeftDown
    /\ mouseLeftDown => el = hoveredElement
    \* Ctrl is looked at when the button goes down
    /\ ctrl => ev = "press"
    \* off the canvas the pointer has no position of interest
    /\ el = "" => p = << 0, 0 >>
    /\ CommitWithin(update(Editor, SelectInput(el, p, ev, ctrl, FALSE, NULL, << >>)),
                    SelectBounds)

SelectNext ==
  \/ SelectImport
  \/ SelectSetTool
  \/ InspectorSelectVertex
  \/ InspectorSelectEdge
  \/ InspectorSelectSurface
  \/ SelectFrame

SelectSpec == Init /\ [][SelectNext]_vars

\* where the pointer goes in the top panel while it drags: on the first vertex
\* of the file, and on its second
DragPointers == { << 0, 0 >>, << 50, 0 >> }

\* where the pointer goes in the 3d canvas
Pointers3d == { << 0, 0 >>, << 0, 50 >> }

\* where the ray of the 3d camera meets the plane of the dragged vertex (x, z),
\* << >> when it does not
Intersections == { << >>, << 50, 0 >> }

DragElements == { "canvas-top", "canvas-3d", "" }

DragEvents == { "move", "press", "release", "Escape", "Space", "SpaceUp", "KeyY", "KeyYUp" }

\* requestAnimationFrame: loop() calls update(dt), ev being what happens in the
\* frame; the pointer drags
DragFrameOn(ev) ==
  \E el \in DragElements, p \in DragPointers \cup Pointers3d,
     ctrl \in BOOLEAN, shift \in BOOLEAN,
     closest \in { NULL } \cup { model.vertices[i] : i \in DOMAIN model.vertices \cap { 1 } },
     intersection \in Intersections :
    \* the button goes down on a canvas, and the pointer stays on that canvas
    \* until the button is up
    /\ ev = "press" => ~mouseLeftDown /\ el # ""
    /\ ev = "release" => mouseLeftDown
    /\ mouseLeftDown => el = hoveredElement
    \* a key goes up after it went down; Space goes down while the button is
    \* down, and Y while it is down in the 3d canvas
    /\ ev = "Space" => ~spacebarPanActive /\ mouseLeftDown
    /\ ev = "SpaceUp" => spacebarPanActive
    /\ ev = "KeyY" => ~movementConstraintYActive /\ mouseLeftDown /\ el = "canvas-3d"
    /\ ev = "KeyYUp" => movementConstraintYActive
    \* Ctrl is looked at when the button goes down, Shift while it is down
    /\ ctrl => ev = "press"
    /\ shift => mouseLeftDown /\ ev = "move"
    \* the pointer of each canvas; off the canvases it has no position of interest
    /\ el = "" => p = << 0, 0 >>
    /\ el = "canvas-top" => p \in DragPointers
    /\ el = "canvas-3d" => p \in Pointers3d
    \* the 3d camera finds something in the 3d canvas only, and its ray is
    \* looked at while a vertex is dragged
    /\ el # "canvas-3d" => closest = NULL
    /\ intersection # << >> => el = "canvas-3d" /\ mouseLeftDown /\ draggingVertex # NULL
    /\ CommitWithin(update(Editor, SelectInput(el, p, ev, ctrl, shift, closest, intersection)),
                    SelectBounds)

DragFrame == \E ev \in DragEvents : DragFrameOn(ev)

DragNext ==
  \/ SelectImport
  \/ DragFrame

DragSpec == Init /\ [][DragNext]_vars

-----------------------------------------------------------------------------
(* The history under the select tool: the triangle file is imported, the   *)
(* pointer clicks and drags vertices in the top panel, Delete removes what *)
(* is selected, and undo, redo and the jump buttons walk the history.      *)

HistoryBounds ==
  [vertices |-> MaxModelVertices, edges |-> MaxModelEdges,
   surfaces |-> MaxModelSurfaces, history |-> MaxHistory]

\* the import button, the triangle file chosen, the editor still empty
HistoryImport ==
  /\ ButtonClick
  /\ model.vertices = << >>
  /\ CommitWithin(import(Editor, FileTriangle), HistoryBounds)

\* toolbar button 'undo'
HistoryUndo == ButtonClick /\ CommitWithin(undo(Editor), HistoryBounds)

\* toolbar button 'redo'
HistoryRedo == ButtonClick /\ CommitWithin(redo(Editor), HistoryBounds)

\* a 'jump' button of the history panel
HistoryJump ==
  \E index \in 0..(Len(history) - 1) :
    /\ ButtonClick
    /\ CommitWithin(jumpToHistoryEntry(Editor, index).s, HistoryBounds)

\* requestAnimationFrame: loop() calls update(dt); the pointer clicks and drags
\* in the top panel, and Delete is pressed with the button up
HistoryFrame ==
  \E el \in { "canvas-top", "" }, p \in DragPointers,
     ev \in { "move", "press", "release", "Delete" } :
    /\ ev = "press" => ~mouseLeftDown /\ el # ""
    /\ ev = "release" => mouseLeftDown
    /\ ev = "Delete" => ~mouseLeftDown
    /\ mouseLeftDown => el = hoveredElement
    /\ el = "" => p = << 0, 0 >>
    /\ CommitWithin(update(Editor, SelectInput(el, p, ev, FALSE, FALSE, NULL, << >>)),
                    HistoryBounds)

HistoryNext ==
  \/ HistoryImport
  \/ HistoryUndo
  \/ HistoryRedo
  \/ HistoryJump
  \/ HistoryFrame

HistorySpec == Init /\ [][HistoryNext]_vars

-----------------------------------------------------------------------------
(* Grid snapping and the axis lock.  The edge file is imported; the        *)
(* pointer drags its first vertex in the top panel and in the 3d canvas,   *)
(* with and without Shift, the Y axis locked or not.  The input of the     *)
(* last frame is kept.                                                     *)

\* where the pointer goes in the top panel: on the first vertex of the file,
\* less than half a grid cell to its right, and more than half
SnapPointers == { << 0, 0 >>, << 23, 0 >>, << 30, 0 >> }

\* where the pointer goes in the 3d canvas
SnapPointers3d == { << 0, 0 >>, << 0, -30 >> }

SnapEvents == { "move", "press", "release", "KeyY", "KeyYUp" }

\* the import button, the edge file chosen, the editor still empty
SnapImport ==
  /\ ButtonClick
  /\ model.vertices = << >>
  /\ CommitObserved(import(Editor, FileEdge), SelectBounds, << >>)

\* no vertex is further than MaxCoordinate from the origin, on any axis
WithinReach(s) ==
  \A v \in Range(s.model.vertices) :
    \A c \in Range(vec3_components(s.vertexHeap[v].position)) :
      c <= MaxCoordinate /\ 0 - c <= MaxCoordinate

\* requestAnimationFrame: loop() calls update(dt); the pointer drags the first
\* vertex, Shift held or not
SnapFrame ==
  \E el \in DragElements, p \in SnapPointers \cup SnapPointers3d, ev \in SnapEvents,
     shift \in BOOLEAN,
     closest \in { NULL } \cup { model.vertices[i] : i \in DOMAIN model.vertices \cap { 1 } } :
    \* the button goes down on a canvas, and the pointer stays on that canvas
    \* until the button is up
    /\ ev = "press" => ~mouseLeftDown /\ el # ""
    /\ ev = "release" => mouseLeftDown
    /\ mouseLeftDown => el = hoveredElement
    \* Y goes down while the button is down in the 3d canvas, and up after that
    /\ ev = "KeyY" => ~movementConstraintYActive /\ mouseLeftDown /\ el = "canvas-3d"
    /\ ev = "KeyYUp" => movementConstraintYActive
    \* Shift is looked at while the pointer drags
    /\ shift => mouseLeftDown /\ ev = "move"
    \* the pointer of each canvas; off the canvases it has no position of interest
    /\ el = "" => p = << 0, 0 >>
    /\ el = "canvas-top" => p \in SnapPointers
    /\ el = "canvas-3d" => p \in SnapPointers3d
    \* the 3d camera projects in the 3d canvas only
    /\ el # "canvas-3d" => closest = NULL
    /\ \E in \in { SelectInput(el, p, ev, FALSE, shift, closest, << >>) } :
         \E after \in { update(Editor, in) } :
           /\ WithinReach(after)
           /\ CommitObserved(after, SelectBounds, << Observed(in) >>)

SnapNext ==
  \/ SnapImport
  \/ SnapFrame

SnapSpec == Init /\ [][SnapNext]_vars

-----------------------------------------------------------------------------
(* Hovering.  The scene file is imported; the pointer moves over the three *)
(* panels and the 3d canvas, with each tool of the toolbar and with the    *)
(* spacebar pan.  The 3d camera is above the scene and looks down: it      *)
(* projects a vertex to its (x, z), or not at all when the vertex is       *)
(* behind it.  The input of the last frame is kept.                        *)

HoverBounds ==
  [vertices |-> MaxHoverVertices, edges |-> MaxHoverEdges,
   surfaces |-> MaxHoverSurfaces, history |-> MaxSelectHistory]

\* the import button, the scene file chosen, the editor still empty
HoverImport ==
  /\ ButtonClick
  /\ model.vertices = << >>
  /\ CommitObserved(import(Editor, FileScene), HoverBounds, << >>)

\* every tool of the toolbar
HoverTools == { "select", "pan", "create-vertex", "create-edge", "create-surface" }

\* a selectable toolbar button
HoverSetTool ==
  \E t \in HoverTools :
    /\ ButtonClick
    /\ t # tool
    /\ CommitObserved(setTool(Editor, t), HoverBounds, << >>)

\* where the pointer goes: on the vertex at the origin, on the edges that leave
\* it, inside the surfaces, and outside them
HoverPointers == { << 0, 0 >>, << 15, 0 >>, << 8, 8 >>, << 40, 40 >> }

\* where the 3d camera is
HoverCamera == vec3(0, 100, 0)

\* the InputManager state of a frame in which the pointer moves or Space goes
\* down or up (ev); behind is the vertex the 3d camera does not project (NULL
\* when it projects them all)
HoverInput(el, p, ev, behind) ==
  [hoveredElement |-> el,
   mousePosition |-> p,
   mousePressed |-> FALSE,
   mouseReleased |-> FALSE,
   mouseDown |-> FALSE,
   keyPressed |-> IF ev = "Space" THEN ev ELSE "",
   keyReleased |-> IF ev = "SpaceUp" THEN "Space" ELSE "",
   ctrl |-> FALSE,
   shift |-> FALSE,
   projection |-> [v \in Range(model.vertices) |->
                     IF v = behind THEN << >>
                     ELSE << vertexHeap[v].position.x, vertexHeap[v].position.z >>],
   cameraPosition |-> HoverCamera,
   ray |-> (el = "canvas-3d"),
   intersection |-> << >>]

\* requestAnimationFrame: loop() calls update(dt); the pointer moves
HoverFrame ==
  \E el \in Canvases \cup { "" }, p \in HoverPointers, ev \in { "move", "Space", "SpaceUp" },
     behind \in { NULL } \cup Range(model.vertices) :
    \* Space goes up after it went down
    /\ ev = "Space" => ~spacebarPanActive
    /\ ev = "SpaceUp" => spacebarPanActive
    \* off the canvases the pointer has no position of interest
    /\ el = "" => p = << 0, 0 >>
    \* the 3d camera is looked at in the 3d canvas only
    /\ el # "canvas-3d" => behind = NULL
    /\ \E in \in { HoverInput(el, p, ev, behind) } :
         CommitObserved(update(Editor, in), HoverBounds, << Observed(in) >>)

HoverNext ==
  \/ HoverImport
  \/ HoverSetTool
  \/ HoverFrame

HoverSpec == Init /\ [][HoverNext]_vars

-----------------------------------------------------------------------------
(* The creation of edges and surfaces.  The triangle file is imported; the *)
(* pointer clicks its vertices in the top panel with the create-edge and   *)
(* the create-surface tool, between presses of Escape and Space and        *)
(* clicks on the toolbar.  The input of the last frame is kept.            *)

CreateBounds ==
  [vertices |-> MaxModelVertices, edges |-> MaxModelEdges,
   surfaces |-> MaxHoverSurfaces, history |-> MaxSelectHistory]

\* the import button, the triangle file chosen, the editor still empty
CreateImport ==
  /\ ButtonClick
  /\ model.vertices = << >>
  /\ CommitObserved(import(Editor, FileTriangle), CreateBounds, << >>)

\* the tools of the toolbar the exploration selects
CreateTools == { "select", "create-edge", "create-surface" }

\* a selectable toolbar button
CreateSetTool ==
  \E t \in CreateTools :
    /\ ButtonClick
    /\ t # tool
    /\ Len(history) < MaxSelectHistory
    /\ CommitObserved(setTool(Editor, t), CreateBounds, << >>)

\* where the pointer goes in the top panel: on the three vertices of the file
CreatePointers == { << 0, 0 >>, << 50, 0 >>, << 0, 50 >> }

CreateEvents == { "move", "press", "release", "Escape", "Space", "SpaceUp" }

\* requestAnimationFrame: loop() calls update(dt); the pointer clicks vertices
CreateFrame ==
  \E el \in { "canvas-top", "" }, p \in CreatePointers, ev \in CreateEvents :
    \* the exploration ends when the history is full
    /\ Len(history) < MaxSelectHistory
    \* the button goes down on the canvas with a creation tool, and up in the
    \* next frame, the pointer still where it was
    /\ ev = "press" <=> (/\ ~mouseLeftDown
                         /\ el # ""
                         /\ tool \in { "create-edge", "create-surface" }
                         /\ lastInput # << >>
                         /\ lastInput[1].hoveredElement = el
                         /\ lastInput[1].mousePosition = p)
    /\ ev = "release" <=> mouseLeftDown
    /\ mouseLeftDown => el = hoveredElement /\ p = lastInput[1].mousePosition
    \* Escape and Space go down while something is being created, and Space
    \* goes up after it went down
    /\ ev \in { "Escape", "Space" } => ~creatingEdge.null \/ ~creatingSurface.null
    /\ ev = "Space" => ~spacebarPanActive
    /\ ev = "SpaceUp" => spacebarPanActive
    \* off the canvas the pointer has no position of interest
    /\ el = "" => p = << 0, 0 >>
    /\ \E in \in { SelectInput(el, p, ev, FALSE, FALSE, NULL, << >>) } :
         CommitObserved(update(Editor, in), CreateBounds, << Observed(in) >>)

CreateNext ==
  \/ CreateImport
  \/ CreateSetTool
  \/ CreateFrame

CreateSpec == Init /\ [][CreateNext]_vars

-----------------------------------------------------------------------------
(* The movement constraints.  The edge file is imported; the pointer       *)
(* presses its first vertex in the 3d canvas while the keys X, Y and Z go  *)
(* down and up, one in a frame, and the constraint buttons are clicked.    *)
(* The input of the last frame is kept, and with it the keys that are held. *)

ConstraintKeys == { "KeyX", "KeyY", "KeyZ" }

\* the keys that are held after the last frame
KeysDown == IF Len(lastInput) < 2 THEN { } ELSE lastInput[2]

\* the InputManager state of a frame in which the key goes down (up = FALSE)
\* or up, or no key does (key = "")
ConstraintInput(el, p, ev, key, up, closest) ==
  [SelectInput(el, p, ev, FALSE, FALSE, closest, << >>) EXCEPT
     !.keyPressed = IF up THEN "" ELSE key,
     !.keyReleased = IF up THEN key ELSE ""]

\* a movement constraint button of the toolbar
ConstraintButton ==
  \E axis \in { "x", "y", "z" } :
    /\ ButtonClick
    /\ CommitObserved(updateMovementConstraints(Editor, axis), SelectBounds, lastInput)

\* requestAnimationFrame: loop() calls update(dt)
ConstraintFrame ==
  \E el \in { "canvas-3d", "" }, p \in { << 0, 0 >> },
     ev \in { "move", "press", "release" }, key \in ConstraintKeys \cup { "" },
     up \in BOOLEAN,
     closest \in { NULL } \cup { model.vertices[i] : i \in DOMAIN model.vertices \cap { 1 } } :
    /\ ev = "press" => ~mouseLeftDown /\ el # ""
    /\ ev = "release" => mouseLeftDown
    /\ mouseLeftDown => el = hoveredElement
    \* a key goes down when it is up, and up when it is down; a button edge
    \* and a key edge come in different frames
    /\ key # "" => ev = "move"
    /\ key = "" => ~up
    /\ (key # "" /\ ~up) => key \notin KeysDown
    /\ up => key \in KeysDown
    /\ el = "" => p = << 0, 0 >> /\ closest = NULL
    /\ \E in \in { ConstraintInput(el, p, ev, key, up, closest) } :
         CommitObserved(update(Editor, in), SelectBounds,
                        << Observed(in),
                           IF up THEN KeysDown \ { key }
                           ELSE IF key # "" THEN KeysDown \cup { key }
                           ELSE KeysDown >>)

ConstraintNext ==
  \/ SnapImport
  \/ ConstraintButton
  \/ ConstraintFrame

ConstraintSpec == Init /\ [][ConstraintNext]_vars

-----------------------------------------------------------------------------
(* The remove methods of the model called with what the editor holds.  The *)
(* triangle file is imported, the inspector selects a vertex, an edge or a *)
(* surface, and the live model is asked to remove a selected object, which *)
(* stays in the selection: in the model or not.                            *)

\* model.removeVertex(v), v a vertex the selection holds
RemoveHeldVertex ==
  \E v \in Range(selectedVertices) :
    CommitWithin(Model_removeVertex(Editor, v), ModelBounds)

\* model.removeEdge(e), e an edge the selection holds
RemoveHeldEdge ==
  \E e \in Range(selectedEdges) :
    CommitWithin(Model_removeEdge(Editor, e), ModelBounds)

\* model.removeSurface(f), f a surface the selection holds
RemoveHeldSurface ==
  \E f \in Range(selectedSurfaces) :
    CommitWithin(Model_removeSurface(Editor, f), ModelBounds)

RemoveNext ==
  \/ SelectImport
  \/ InspectorSelectVertex
  \/ InspectorSelectEdge
  \/ InspectorSelectSurface
  \/ RemoveHeldVertex
  \/ RemoveHeldEdge
  \/ RemoveHeldSurface

RemoveSpec == Init /\ [][RemoveNext]_vars

-----------------------------------------------------------------------------
(* Model.deserialize on its own: the tree is drawn at the start, the       *)
(* action applies the function and keeps what the caller gets.             *)

\* the vertex ids a tree may use
ProbeIds == 1..MaxProbeId

\* the vertex lists of the trees: none, one, two, and two with the same id
ProbeVertexLists ==
  { << >>,
    << VData(1, 0, 0, 0, FALSE) >>,
    << VData(1, 0, 0, 0, FALSE), VData(2, 50, 0, 0, TRUE) >>,
    << VData(1, 0, 0, 0, FALSE), VData(1, 50, 0, 0, FALSE) >> }

\* the edge lists of the trees: none, or one edge between any two ids
ProbeEdgeLists ==
  { << >> } \cup { << EData(1, a, b) >> : a \in ProbeIds, b \in ProbeIds }

\* the surface lists of the trees: none, or one surface over any two ids
ProbeSurfaceLists ==
  { << >> } \cup { << SData(1, << a, b >>) >> : a \in ProbeIds, b \in ProbeIds }

\* the trees handed to Model.deserialize
ProbeTrees ==
  { Tree("p", vs, es, ss) :
      vs \in ProbeVertexLists, es \in ProbeEdgeLists, ss \in ProbeSurfaceLists }

ProbeInit ==
  /\ InitEditor
  /\ probeIn \in { << d >> : d \in ProbeTrees }
  /\ probeOut = << >>

\* what the caller of Model.deserialize holds afterwards: whether it threw,
\* and the tree of the model it got (none if it threw)
Returned(d) ==
  [thrown |-> d.thrown,
   model |-> IF d.model.null THEN << >> ELSE << Model_serialize(d.s, d.model) >>]

\* Model.deserialize(probeIn)
Deserialize ==
  /\ probeIn # << >>
  /\ probeOut = << >>
  /\ probeOut' = << Returned(Model_deserialize(Editor, probeIn[1])) >>
  /\ UNCHANGED << vertexHeap, edgeHeap, surfaceHeap, model, history,
                  currentHistoryIndex, tool, previousTool, spacebarPanActive,
                  hoveredVertex, hoveredEdge, hoveredSurface, clickedVertex,
                  selectedVertices, selectedEdges, selectedSurfaces, draggingVertex,
                  dragStartMouse, dragStartVertexPositions, verticesMoved,
                  creatingEdge, creatingSurface, movementConstraintXActive,
                  movementConstraintYActive, movementConstraintZActive,
                  mouseLeftDown, hoveredElement, notifications, console,
                  removedControllers, lastInput, probeIn >>

ProbeNext == Deserialize

ProbeSpec == ProbeInit /\ [][ProbeNext]_vars

-----------------------------------------------------------------------------
(* Referential integrity of the live model.                                *)

\* the vertices the live model holds
ModelVertices == Range(model.vertices)

\* the tree Model.serialize returns for the live model
Serialized == Model_serialize(Editor, model)

\* an edge of the live model has an end that is no vertex of the live model,
\* or one of its surfaces a corner that is none
DanglingReference ==
  \/ \E i \in 1..Len(model.edges) :
       \/ edgeHeap[model.edges[i]].a \notin ModelVertices
       \/ edgeHeap[model.edges[i]].b \notin ModelVertices
  \/ \E i \in 1..Len(model.surfaces) :
       Range(surfaceHeap[model.surfaces[i]].vertices) \ ModelVertices # {}

\* C1: in every state the editor reaches, both ends of every edge of the live
\* model and every corner of every surface of the live model are vertices of
\* the live model
C1_NoDanglingReference == ~DanglingReference

-----------------------------------------------------------------------------
(* Model.removeVertex and its cascade.                                     *)

\* the edges of the live model that have v for an end
EdgesAt(v) ==
  { e \in Range(model.edges) : edgeHeap[e].a = v \/ edgeHeap[e].b = v }

\* the surfaces of the live model that list v
SurfacesAt(v) ==
  { f \in Range(model.surfaces) : v \in Range(surfaceHeap[f].vertices) }

\* the action labels of the history, in order
Labels == [i \in 1..Len(history) |-> history[i].action]

\* the model was built by addVertex (V1), addVertex (V2), addEdge(V1, V2)
TwoVerticesAndTheirEdge ==
  /\ Labels = << "Vertex added", "Vertex added", "Edge added" >>
  /\ currentHistoryIndex = 2
  /\ Len(model.vertices) = 2
  /\ Len(model.edges) = 1
  /\ edgeHeap[model.edges[1]].a = model.vertices[1]
  /\ edgeHeap[model.edges[1]].b = model.vertices[2]

\* C2: for every vertex v of the model, right after Model.removeVertex(v) no
\* edge of the model has v for an end and no surface of the model lists v; and
\* after addVertex V1, addVertex V2, addEdge(V1, V2), removeVertex(V1) the model
\* has exactly one vertex, V2, and no edge
C2_RemoveVertexCascades ==
  /\ \A v \in Range(model.vertices) :
       LET after == Model_removeVertex(Editor, v)
       IN  /\ \A i \in 1..Len(after.model.edges) :
                /\ after.edgeHeap[after.model.edges[i]].a # v
                /\ after.edgeHeap[after.model.edges[i]].b # v
           /\ \A i \in 1..Len(after.model.surfaces) :
                v \notin Range(after.surfaceHeap[after.model.surfaces[i]].vertices)
  /\ TwoVerticesAndTheirEdge =>
       LET after == Model_removeVertex(Editor, model.vertices[1])
       IN  /\ after.model.vertices = << model.vertices[2] >>
           /\ after.model.edges = << >>

\* removeVertex(V1) has acted on the model of V1, V2 and their edge: V2 is left
C2_Witness ==
  /\ Labels = << "Vertex added", "Vertex added", "Edge added", "Vertex removed" >>
  /\ history[3].model.edges[1].a = history[2].model.vertices[1].id
  /\ history[3].model.edges[1].b = history[2].model.vertices[2].id
  /\ Len(model.vertices) = 1
  /\ vertexHeap[model.vertices[1]].id = history[2].model.vertices[2].id
  /\ model.edges = << >>

\* the vertex ids a tree lists as its vertices
ListedVertexIds(data) == { data.vertices[i].id : i \in 1..Len(data.vertices) }

\* C3: Model.removeVertex(v), v a vertex of the model, dispatches exactly one
\* notification however many edges and surfaces the cascade removes, and only
\* after the cascade: the snapshot it carries has neither v, nor an edge or a
\* surface that referenced v
C3_RemoveVertexNotifiesOnce ==
  \A v \in Range(model.vertices) :
    LET after == Model_removeVertex(Editor, v)
        snapshot == after.notifications[1].model
    IN  /\ Len(after.notifications) = 1
        /\ vertexHeap[v].id \notin ListedVertexIds(snapshot)
        /\ \A e \in EdgesAt(v) : edgeHeap[e].id \notin TreeEdgeIds(snapshot)
        /\ \A f \in SurfacesAt(v) : surfaceHeap[f].id \notin TreeSurfaceIds(snapshot)
        /\ \A i \in 1..Len(snapshot.edges) :
             vertexHeap[v].id \notin { snapshot.edges[i].a, snapshot.edges[i].b }
        /\ \A i \in 1..Len(snapshot.surfaces) :
             vertexHeap[v].id \notin Range(snapshot.surfaces[i].vertices)

\* removeVertex has just removed a vertex together with an edge and a surface,
\* and the handler saw one notification
C3_Witness ==
  /\ Len(notifications) = 1
  /\ notifications[1].action = "Vertex removed"
  /\ Len(history) >= 2
  /\ Len(history[Len(history) - 1].model.edges) > Len(notifications[1].model.edges)
  /\ Len(history[Len(history) - 1].model.surfaces)
       > Len(notifications[1].model.surfaces)

-----------------------------------------------------------------------------
(* The mutators of Model, the notification and the history.                *)

\* a call of one of the six mutators of Model
ModelMutation ==
  AddVertex \/ RemoveVertex \/ AddEdge \/ RemoveEdge \/ AddSurface \/ RemoveSurface

\* C4: a call of addVertex, removeVertex, addEdge, removeEdge, addSurface or
\* removeSurface that changes the model changes it before it notifies, and the
\* history is appended to within the call: when it returns, the notification
\* carried the model as changed, and the last entry of the history has a
\* non-empty label and the serialization of the model as changed
C4_MutationThenNotificationAndHistory ==
  [][(ModelMutation /\ Serialized' # Serialized)
       => /\ notifications' # << >>
          /\ notifications'[Len(notifications')].model = Serialized'
          /\ history' # << >>
          /\ Len(history') = Len(history) + 1
          /\ history'[Len(history')].action # ""
          /\ history'[Len(history')].model = Serialized']_vars

\* removeSurface has returned: the last entry is its record of the model without the surface
C4_Witness ==
  /\ notifications # << >>
  /\ Len(history) >= 2
  /\ history[Len(history)].action = "Surface removed"
  /\ history[Len(history)].model = Serialized
  /\ history[Len(history) - 1].model.surfaces # << >>
  /\ model.surfaces = << >>

-----------------------------------------------------------------------------
(* Model.deserialize and dangling references.                              *)

\* an edge or a surface of the tree names a vertex id the tree does not list
DanglingTree(data) ==
  \/ \E i \in 1..Len(data.edges) :
       { data.edges[i].a, data.edges[i].b } \ ListedVertexIds(data) # {}
  \/ \E i \in 1..Len(data.surfaces) :
       Range(data.surfaces[i].vertices) \ ListedVertexIds(data) # {}

\* C6: Model.deserialize throws whenever an end of an edge, or an id a surface
\* lists, is not the id of a vertex of the input's vertex list, and then the
\* caller gets no model at all
C6_DeserializeRejectsDangling ==
  (probeOut # << >> /\ DanglingTree(probeIn[1]))
    => /\ probeOut[1].thrown
       /\ probeOut[1].model = << >>

\* Model.deserialize has thrown on a tree whose edge is sound and whose surface dangles
C6_Witness ==
  /\ probeOut # << >>
  /\ probeOut[1].thrown
  /\ probeIn[1].edges # << >>
  /\ { probeIn[1].edges[1].a, probeIn[1].edges[1].b } \subseteq ListedVertexIds(probeIn[1])
  /\ probeIn[1].surfaces # << >>
  /\ Range(probeIn[1].surfaces[1].vertices) \ ListedVertexIds(probeIn[1]) # {}

-----------------------------------------------------------------------------
(* Import.                                                                 *)

\* C5: when an import fails (the text does not parse, or Model.deserialize
\* throws), the live model is the model it was, with the same vertices, edges
\* and surfaces, and the history and the cursor are what they were
C5_FailedImportChangesNothing ==
  [][console' = << "Error importing model:" >>
       => /\ model'.null = model.null
          /\ Serialized' = Serialized
          /\ UNCHANGED << history, currentHistoryIndex >>]_vars

-----------------------------------------------------------------------------
(* Round trip.                                                             *)

\* the live model, serialized and deserialized again: [thrown, s, model]
RoundTrip == Model_deserialize(Editor, Serialized)

\* C7: deserializing the serialization of a model yields a model with the same
\* vertex, edge and surface ids in the same order, the same positions and hidden
\* flags and the same references by id: it serializes to the same tree
C7_RoundTrip ==
  ~model.null =>
    /\ ~RoundTrip.thrown
    /\ Model_serialize(RoundTrip.s, RoundTrip.model) = Serialized

-----------------------------------------------------------------------------
(* History.                                                                *)

\* the notifications the listener records: those with an action label
Labelled(detail) == detail.action # ""

\* the entries the listener makes of the notifications
EntriesOf(details) ==
  [i \in 1..Len(details) |-> [action |-> details[i].action, model |-> details[i].model]]

\* C8: recording discards the entries after the cursor, then appends the new
\* entry and moves the cursor to the new last index: a handler that dispatched
\* notifications leaves the entries up to the old cursor, followed by the new ones
C8_RecordTruncatesThenAppends ==
  [][SelectSeq(notifications', Labelled) # << >>
       => /\ history' = SubSeq(history, 1, currentHistoryIndex + 1)
                          \o EntriesOf(SelectSeq(notifications', Labelled))
          /\ currentHistoryIndex' = Len(history') - 1]_vars

\* a record has discarded the redo branch: [A, B] with the cursor on A became [A, C]
C8_Witness ==
  /\ notifications # << >>
  /\ removedControllers = 1
  /\ Len(history) = 2
  /\ currentHistoryIndex = 1
  /\ history[2].action = notifications[1].action

\* C9: with the cursor above 0, undo moves the cursor down by exactly one, and
\* with the cursor below the last index, redo moves it up by exactly one; either
\* way the live model then serializes to the snapshot of the entry at the cursor
C9_UndoRedoRestoreSnapshot ==
  [][/\ (currentHistoryIndex > 0 /\ Undo)
          => /\ currentHistoryIndex' = currentHistoryIndex - 1
             /\ ~model'.null
             /\ Serialized' = history[currentHistoryIndex' + 1].model
     /\ (currentHistoryIndex < Len(history) - 1 /\ Redo)
          => /\ currentHistoryIndex' = currentHistoryIndex + 1
             /\ ~model'.null
             /\ Serialized' = history[currentHistoryIndex' + 1].model]_vars

\* C10: undo with the cursor at 0 or below, and redo with the cursor at the last
\* index, change neither the cursor, nor the history, nor the live model
C10_BoundaryNoOps ==
  [][((currentHistoryIndex <= 0 /\ Undo)
        \/ (currentHistoryIndex >= Len(history) - 1 /\ Redo))
       => UNCHANGED << currentHistoryIndex, history, model,
                       vertexHeap, edgeHeap, surfaceHeap >>]_vars

\* undo has just been refused at the first entry, with a model that has a vertex
C10_WitnessUndo ==
  /\ console = << "No more history to undo" >>
  /\ currentHistoryIndex = 0
  /\ model.vertices # << >>

\* the editor jumpToHistoryEntry(index) leaves
Jumped(index) == jumpToHistoryEntry(Editor, index).s

\* C11: jumpToHistoryEntry(i) with i below 0 or not below the length of the
\* history changes neither the cursor, nor the history, nor the live model; with
\* i an index of the history, it sets the cursor to i and the live model then
\* serializes to the snapshot of entry i
C11_JumpToHistoryEntry ==
  [][/\ \A i \in { -1, Len(history) } :
          /\ Jumped(i).currentHistoryIndex = currentHistoryIndex
          /\ Jumped(i).history = history
          /\ Jumped(i).model = model
          /\ Jumped(i).vertexHeap = vertexHeap
          /\ Jumped(i).edgeHeap = edgeHeap
          /\ Jumped(i).surfaceHeap = surfaceHeap
     /\ \A i \in 0..(Len(history) - 1) :
          (ButtonClick /\ Commit(Jumped(i)))
            => /\ currentHistoryIndex' = i
               /\ ~model'.null
               /\ Serialized' = history[i + 1].model]_vars

\* C12: every change notification of the live model with a label appends
\* exactly one history entry, and a notification without a label appends none:
\* a call that only dispatched unlabelled notifications leaves the history and
\* the cursor as they were, and a call that dispatched labelled ones leaves one
\* entry for each of them, in their order, after the entries up to the cursor
C12_LabelledNotificationsAreRecorded ==
  [][/\ (notifications' # << >> /\ SelectSeq(notifications', Labelled) = << >>)
          => UNCHANGED << history, currentHistoryIndex >>
     /\ SelectSeq(notifications', Labelled) # << >>
          => /\ Len(history') = currentHistoryIndex + 1
                                  + Len(SelectSeq(notifications', Labelled))
             /\ \A k \in 1..Len(SelectSeq(notifications', Labelled)) :
                  history'[currentHistoryIndex + 1 + k].action
                    = SelectSeq(notifications', Labelled)[k].action]_vars

\* an unlabelled notification was dispatched, and the history kept its entry
C12_Witness ==
  /\ Len(notifications) = 1
  /\ notifications[1].action = ""
  /\ Len(history) = 1
  /\ currentHistoryIndex = 0

\* C13: a recorded history entry is immutable: no operation changes the label
\* or the snapshot of an entry, and an entry leaves the history only when its
\* jump button is removed with those of all the entries after it (truncation)
C13_HistoryEntriesAreImmutable ==
  [][\A i \in 1..Len(history) :
       (i > Len(history') \/ history'[i] # history[i])
         => removedControllers' >= Len(history) - i + 1]_vars

\* after an undo, a drag in progress has moved a vertex of the live model away
\* from the snapshot at the cursor, with both entries still recorded
C13_Witness ==
  /\ Len(history) = 2
  /\ currentHistoryIndex = 0
  /\ draggingVertex # NULL
  /\ verticesMoved
  /\ Serialized # history[1].model

\* the left button went down in this frame
Pressed == ~mouseLeftDown /\ mouseLeftDown'

\* C14 as stated: with the select tool, a click that selects a hovered vertex
\* leaves the edge selection and the surface selection unchanged, and a click
\* that selects a hovered edge (or surface) leaves the selections of the other
\* two kinds unchanged
C14_SelectionIndependence ==
  [][(tool = "select" /\ Pressed)
       => /\ hoveredVertex' # NULL
               => UNCHANGED << selectedEdges, selectedSurfaces >>
          /\ hoveredEdge' # NULL
               => UNCHANGED << selectedVertices, selectedSurfaces >>
          /\ hoveredSurface' # NULL
               => UNCHANGED << selectedVertices, selectedEdges >>]_vars

\* C14: with the select tool, a click that selects a hovered vertex empties the
\* edge selection and the surface selection, and a click that selects a hovered
\* edge (or surface) empties the selections of the other two kinds
C14_ClickEmptiesTheOtherKinds ==
  [][(tool = "select" /\ Pressed)
       => /\ hoveredVertex' # NULL
               => selectedVertices' # << >> /\ selectedEdges' = << >>
                                            /\ selectedSurfaces' = << >>
          /\ hoveredEdge' # NULL
               => selectedEdges' # << >> /\ selectedVertices' = << >>
                                         /\ selectedSurfaces' = << >>
          /\ hoveredSurface' # NULL
               => selectedSurfaces' # << >> /\ selectedVertices' = << >>
                                            /\ selectedEdges' = << >>]_vars

\* the button is down on the edge, just selected, and no vertex is selected
C14_Witness ==
  /\ tool = "select"
  /\ mouseLeftDown
  /\ hoveredEdge # NULL
  /\ selectedEdges = << hoveredEdge >>
  /\ selectedVertices = << >>

\* nothing is hovered after the frame
NothingHovered == hoveredVertex = NULL /\ hoveredEdge = NULL /\ hoveredSurface = NULL

\* C15: with the select tool, a left click over a viewport with no hovered
\* vertex, edge or surface empties all three selection lists; with any other
\* tool, a click on empty space changes none of the three
C15_EmptyClickDeselectsAll ==
  [][(Pressed /\ NothingHovered')
       => IF tool = "select"
            THEN /\ selectedVertices' = << >>
                 /\ selectedEdges' = << >>
                 /\ selectedSurfaces' = << >>
            ELSE UNCHANGED << selectedVertices, selectedEdges, selectedSurfaces >>]_vars

\* with the create-edge tool, the button is down on empty space and a vertex and
\* a surface are still selected
C15_Witness ==
  /\ tool = "create-edge"
  /\ mouseLeftDown
  /\ NothingHovered
  /\ selectedVertices # << >>
  /\ selectedSurfaces # << >>

\* the members of list other than e, in their order
Without(list, e) == SelectSeq(list, LAMBDA x : x # e)

\* C16: selectVertex, selectEdge and selectSurface (e, additive) with additive
\* false leave the selection of that kind equal to [e], and with additive true
\* the previous members followed by e; deselectX(e) leaves the previous members
\* other than e, and deselectX() leaves none.  The 'select' buttons of the
\* inspector, which call them with additive false, leave one member
C16_SelectAndDeselect ==
  [][/\ \A v \in Range(model.vertices) :
          /\ selectVertex(Editor, v, FALSE).selectedVertices = << v >>
          /\ selectVertex(Editor, v, TRUE).selectedVertices = selectedVertices \o << v >>
          /\ deselectVertex(Editor, v).selectedVertices = Without(selectedVertices, v)
     /\ \A e \in Range(model.edges) :
          /\ selectEdge(Editor, e, FALSE).selectedEdges = << e >>
          /\ selectEdge(Editor, e, TRUE).selectedEdges = selectedEdges \o << e >>
          /\ deselectEdge(Editor, e).selectedEdges = Without(selectedEdges, e)
     /\ \A f \in Range(model.surfaces) :
          /\ selectSurface(Editor, f, FALSE).selectedSurfaces = << f >>
          /\ selectSurface(Editor, f, TRUE).selectedSurfaces = selectedSurfaces \o << f >>
          /\ deselectSurface(Editor, f).selectedSurfaces = Without(selectedSurfaces, f)
     /\ deselectVertex(Editor, NULL).selectedVertices = << >>
     /\ deselectEdge(Editor, NULL).selectedEdges = << >>
     /\ deselectSurface(Editor, NULL).selectedSurfaces = << >>
     /\ InspectorSelectVertex
          => Len(selectedVertices') = 1 /\ selectedVertices'[1] \in Range(model'.vertices)
     /\ InspectorSelectEdge
          => Len(selectedEdges') = 1 /\ selectedEdges'[1] \in Range(model'.edges)
     /\ InspectorSelectSurface
          => Len(selectedSurfaces') = 1
               /\ selectedSurfaces'[1] \in Range(model'.surfaces)]_vars

\* the third vertex of the file, which no pointer of the exploration reaches,
\* is the selection: its 'select' button replaced what was selected
C16_Witness ==
  /\ Len(model.vertices) = 3
  /\ selectedVertices = << model.vertices[3] >>
  /\ selectedEdges # << >>

\* C17: each of the three selections is a set: no vertex, edge or surface
\* appears more than once in its selection list
C17_SelectionsAreSets ==
  /\ \A i, j \in 1..Len(selectedVertices) :
       selectedVertices[i] = selectedVertices[j] => i = j
  /\ \A i, j \in 1..Len(selectedEdges) :
       selectedEdges[i] = selectedEdges[j] => i = j
  /\ \A i, j \in 1..Len(selectedSurfaces) :
       selectedSurfaces[i] = selectedSurfaces[j] => i = j

\* a vertex drag is in progress
Dragging == draggingVertex # NULL /\ dragStartVertexPositions # << >> /\ mouseLeftDown

\* how far vertex v is from where it was when the drag started
Displacement(v) ==
  vec3_sub(vertexHeap[v].position, dragStartVertexPositions[1][vertexHeap[v].id])

\* C18: while a vertex drag is in progress, every frame leaves every selected
\* vertex at its drag-start position plus one and the same delta vector, in the
\* 2d panels and in the 3d canvas, with or without grid snap
C18_DragIsRigid ==
  Dragging
    => /\ \A v \in Range(selectedVertices) :
            vertexHeap[v].id \in DOMAIN dragStartVertexPositions[1]
       /\ \A v, w \in Range(selectedVertices) : Displacement(v) = Displacement(w)

\* in the 3d canvas, two selected vertices have been dragged away from where
\* they were
C18_Witness ==
  /\ Dragging
  /\ hoveredElement = "canvas-3d"
  /\ Cardinality(Range(selectedVertices)) = 2
  /\ \A v \in Range(selectedVertices) : Displacement(v) # vec3(0, 0, 0)

\* the left button went up in this frame
Released == mouseLeftDown /\ ~mouseLeftDown'

\* the notifications labelled 'Vertices moved'
VerticesMovedNotifications(details) ==
  SelectSeq(details, LAMBDA d : d.action = "Vertices moved")

\* C19: when the pointer is released at the end of a vertex drag, exactly one
\* change notification labelled 'Vertices moved' is emitted if the dragged
\* vertices are away from their drag-start positions, and none if they are at
\* them (as after a drag away and back); the drag state is cleared either way
C19_VerticesMovedOnNetDisplacement ==
  [][(Dragging /\ Released)
       => /\ Len(VerticesMovedNotifications(notifications'))
               = IF \E v \in Range(selectedVertices) : Displacement(v) # vec3(0, 0, 0)
                   THEN 1 ELSE 0
          /\ draggingVertex' = NULL
          /\ dragStartMouse' = << >>
          /\ dragStartVertexPositions' = << >>]_vars

\* C20: a vertex drag is cancelled in the frame where Escape is pressed or the
\* tool changes: that frame leaves no anchor vertex, no start cursor and no
\* start-position map
C20_EscapeAndToolSwitchCancelDrag ==
  [][(Dragging /\ (DragFrameOn("Escape") \/ tool' # tool))
       => /\ draggingVertex' = NULL
          /\ dragStartMouse' = << >>
          /\ dragStartVertexPositions' = << >>]_vars

\* the last step was a frame, and this is what InputManager showed it
FrameInput == lastInput[1]

\* the last step was a frame that applied the drag logic of the 3d canvas
Dragged3d ==
  /\ lastInput # << >>
  /\ FrameInput.hoveredElement = "canvas-3d"
  /\ FrameInput.mouseDown
  /\ FrameInput.ray
  /\ tool = "select"
  /\ draggingVertex # NULL
  /\ Len(selectedVertices) > 0

\* C21: in the 3d canvas, with one axis locked, a drag frame leaves every
\* selected vertex displaced from its drag-start position along the locked axis
\* only: the displacement is zero on the other two axes, Shift held or not
C21_AxisLockMovesAlongTheLockedAxisOnly ==
  (Dragged3d /\ (\/ movementConstraintXActive
                 \/ movementConstraintYActive
                 \/ movementConstraintZActive))
    => \A v \in Range(selectedVertices) :
         /\ ~movementConstraintXActive => Displacement(v).x = 0
         /\ ~movementConstraintYActive => Displacement(v).y = 0
         /\ ~movementConstraintZActive => Displacement(v).z = 0

\* the last step was a frame that applied the drag logic of a 2d panel
Dragged2d ==
  /\ lastInput # << >>
  /\ FrameInput.hoveredElement \in Panels2d
  /\ FrameInput.mouseDown
  /\ tool = "select"
  /\ draggingVertex # NULL
  /\ Len(selectedVertices) > 0

\* where the drag frame would put the anchor without the grid: its drag-start
\* position plus the movement of the pointer since the drag started
Tentative ==
  vec3_add(dragStartVertexPositions[1][vertexHeap[draggingVertex].id],
           DeltaVertexPosition2d(FrameInput.hoveredElement,
                                 << FrameInput.mousePosition[1] - dragStartMouse[1],
                                    FrameInput.mousePosition[2] - dragStartMouse[2] >>))

\* x is a multiple of the grid size, and no multiple is nearer to y
NearestMultiple(x, y) ==
  /\ x % DefaultGridSize = 0
  /\ 2 * (x - y) <= DefaultGridSize
  /\ 2 * (y - x) <= DefaultGridSize

InPanel2d == lastInput # << >> /\ FrameInput.hoveredElement \in Panels2d

\* the last step was a frame with the pointer over the 3d canvas
InCanvas3d == lastInput # << >> /\ FrameInput.hoveredElement = "canvas-3d"

\* where the 3d camera of the last frame projects vertex v, << >> when nowhere
ProjectionOf(v) == FrameInput.projection[IndexOf(model.vertices, v) + 1]

\* the input of the last frame, the projections by vertex
FrameInputByVertex ==
  [FrameInput EXCEPT !.projection = [v \in Range(model.vertices) |-> ProjectionOf(v)]]

\* vertex v was a pick candidate of the last frame: the pointer was near it
VertexCandidate(v) ==
  IF InPanel2d
    THEN Vertex_isPointNear2d(Editor, v, screenToWorld(FrameInput.mousePosition),
                              Components(FrameInput.hoveredElement))
    ELSE InCanvas3d /\ Vertex_isPointNear3d(FrameInputByVertex, v)

\* edge e was a pick candidate of the last frame
EdgeCandidate(e) ==
  IF InPanel2d
    THEN Edge_isPointNear2d(Editor, e, screenToWorld(FrameInput.mousePosition),
                            Components(FrameInput.hoveredElement))
    ELSE InCanvas3d /\ Edge_isPointNear3d(Editor, FrameInputByVertex, e)

\* surface f was a pick candidate of the last frame
SurfaceCandidate(f) ==
  IF InPanel2d
    THEN Surface_isPointNear2d(Editor, f, screenToWorld(FrameInput.mousePosition),
                               Components(FrameInput.hoveredElement))
    ELSE InCanvas3d /\ Surface_isPointNear3d(Editor, FrameInputByVertex, f)

\* C23: after the hover resolution of a frame at most one of the hovered vertex,
\* the hovered edge and the hovered surface is set; an edge is hovered only if
\* no vertex is a pick candidate, and a surface only if neither a vertex nor an
\* edge is
C23_HoverPriority ==
  /\ hoveredVertex # NULL => hoveredEdge = NULL /\ hoveredSurface = NULL
  /\ hoveredEdge # NULL => hoveredSurface = NULL
  /\ (lastInput # << >> /\ hoveredEdge # NULL)
       => \A v \in Range(model.vertices) : ~VertexCandidate(v)
  /\ (lastInput # << >> /\ hoveredSurface # NULL)
       => /\ \A v \in Range(model.vertices) : ~VertexCandidate(v)
          /\ \A e \in Range(model.edges) : ~EdgeCandidate(e)

\* an edge is hovered although the pointer is inside a surface as well
C23_Witness ==
  /\ lastInput # << >>
  /\ hoveredEdge # NULL
  /\ edgeHeap[hoveredEdge].hovered
  /\ \E f \in Range(model.surfaces) : SurfaceCandidate(f)

\* C24: an edge or a surface is hovered only while the tool is 'select', a
\* vertex only while it is 'select', 'create-edge' or 'create-surface'; with
\* 'pan' or 'create-vertex' nothing is hovered
C24_HoverByTool ==
  /\ (hoveredEdge # NULL \/ hoveredSurface # NULL) => tool = "select"
  /\ hoveredVertex # NULL => tool \in { "select", "create-edge", "create-surface" }
  /\ tool \in { "pan", "create-vertex" }
       => /\ hoveredVertex = NULL /\ hoveredEdge = NULL /\ hoveredSurface = NULL
          /\ \A v \in Range(model.vertices) : ~vertexHeap[v].hovered
          /\ \A e \in Range(model.edges) : ~edgeHeap[e].hovered
          /\ \A f \in Range(model.surfaces) : ~surfaceHeap[f].hovered

\* the pointer is on a vertex, the spacebar pan is on: nothing is hovered
C24_Witness ==
  /\ lastInput # << >>
  /\ tool = "pan"
  /\ spacebarPanActive
  /\ \E v \in Range(model.vertices) : VertexCandidate(v)
  /\ hoveredVertex = NULL

\* the coordinate of position p on the depth axis of a panel: the world Y in the
\* top panel, the world Z in the front panel, the world X in the side panel
ViewDepth(panelId, p) ==
  CASE panelId = "canvas-top" -> p.y
    [] panelId = "canvas-front" -> p.z
    [] panelId = "canvas-side" -> p.x

\* the sum of the depths of the vertices vs in the panel of the last frame
RECURSIVE ViewDepthSum(_)
ViewDepthSum(vs) ==
  IF vs = << >> THEN 0
  ELSE ViewDepth(FrameInput.hoveredElement, vertexHeap[Head(vs)].position)
         + ViewDepthSum(Tail(vs))

\* C25: in a 2d panel no pick candidate is deeper on the panel's depth axis
\* than the hovered one: no vertex within the pick radius has a larger
\* coordinate than the hovered vertex, and no edge (surface) under the pointer
\* has a larger mean of its vertices' coordinates than the hovered edge
\* (surface)
C25_TopmostIsHovered ==
  InPanel2d
    => /\ hoveredVertex # NULL
            => \A w \in Range(model.vertices) :
                 VertexCandidate(w)
                   => ViewDepthSum(<< w >>) <= ViewDepthSum(<< hoveredVertex >>)
       /\ hoveredEdge # NULL
            => \A e \in Range(model.edges) :
                 EdgeCandidate(e)
                   => ViewDepthSum(<< edgeHeap[e].a, edgeHeap[e].b >>)
                        <= ViewDepthSum(<< edgeHeap[hoveredEdge].a, edgeHeap[hoveredEdge].b >>)
       /\ hoveredSurface # NULL
            => \A f \in Range(model.surfaces) :
                 SurfaceCandidate(f)
                   => ViewDepthSum(surfaceHeap[f].vertices)
                          * Len(surfaceHeap[hoveredSurface].vertices)
                        <= ViewDepthSum(surfaceHeap[hoveredSurface].vertices)
                             * Len(surfaceHeap[f].vertices)

\* in the front panel the pointer is on two vertices, and the one with the
\* larger Z is hovered
C25_Witness ==
  /\ InPanel2d
  /\ FrameInput.hoveredElement = "canvas-front"
  /\ hoveredVertex # NULL
  /\ \E w \in Range(model.vertices) :
       /\ VertexCandidate(w)
       /\ vertexHeap[w].position.z < vertexHeap[hoveredVertex].position.z

\* C26: in the 3d canvas a vertex, an edge or a surface any of whose vertices
\* has an undefined projection is never the hovered one
C26_UnprojectedIsNotPicked ==
  InCanvas3d
    => /\ hoveredVertex # NULL => ProjectionOf(hoveredVertex) # << >>
       /\ hoveredEdge # NULL
            => /\ ProjectionOf(edgeHeap[hoveredEdge].a) # << >>
               /\ ProjectionOf(edgeHeap[hoveredEdge].b) # << >>
       /\ hoveredSurface # NULL
            => \A v \in Range(surfaceHeap[hoveredSurface].vertices) :
                 ProjectionOf(v) # << >>

\* the frame that led to this state saw the left button go down
PressFrame == lastInput # << >> /\ FrameInput.mousePressed

\* the ids of the vertices a list refers to
IdsIn(heap, vs) == [i \in 1..Len(vs) |-> heap[vs[i]].id]

\* C27: with the create-edge tool and a provisional edge, a click on a vertex
\* adds exactly one edge, from the provisional edge's first vertex to the
\* clicked one, records exactly one history entry for it ('Edge added', with
\* the new edge in its snapshot) and leaves no provisional edge
C27_SecondClickAddsTheEdge ==
  [][(/\ PressFrame'
      /\ tool' = "create-edge"
      /\ ~model.null
      /\ ~creatingEdge.null
      /\ hoveredVertex' # NULL)
       => /\ ~model'.null
          /\ Len(model'.edges) = Len(model.edges) + 1
          /\ \A i \in 1..Len(model.edges) :
               /\ edgeHeap'[model'.edges[i]].id = edgeHeap[model.edges[i]].id
               /\ vertexHeap'[edgeHeap'[model'.edges[i]].a].id
                    = vertexHeap[edgeHeap[model.edges[i]].a].id
               /\ vertexHeap'[edgeHeap'[model'.edges[i]].b].id
                    = vertexHeap[edgeHeap[model.edges[i]].b].id
          /\ LET e == edgeHeap'[model'.edges[Len(model'.edges)]]
             IN  /\ vertexHeap'[e.a].id = vertexHeap[creatingEdge.a].id
                 /\ e.b = hoveredVertex'
                 /\ Len(history') = Len(history) + 1
                 /\ SubSeq(history', 1, Len(history)) = history
                 /\ history'[Len(history')].action = "Edge added"
                 /\ LET es == history'[Len(history')].model.edges
                    IN  /\ Len(es) = Len(model'.edges)
                        /\ es[Len(es)].a = vertexHeap'[e.a].id
                        /\ es[Len(es)].b = vertexHeap'[e.b].id
          /\ IdsIn(vertexHeap', model'.vertices) = IdsIn(vertexHeap, model.vertices)
          /\ Len(model'.surfaces) = Len(model.surfaces)
          /\ creatingEdge'.null]_vars

\* a second click has just turned a provisional edge into the model's second
\* edge
C27_Witness ==
  /\ PressFrame
  /\ tool = "create-edge"
  /\ creatingEdge.null
  /\ hoveredVertex # NULL
  /\ ~model.null
  /\ Len(model.edges) = 2
  /\ edgeHeap[model.edges[2]].b = hoveredVertex
  /\ Len(history) = 2
  /\ history[2].action = "Edge added"

\* the provisional edge is left as it was, from the same vertex
ProvisionalEdgeKept ==
  /\ ~creatingEdge'.null
  /\ vertexHeap'[creatingEdge'.a].id = vertexHeap[creatingEdge.a].id

\* the provisional edge is gone, and neither an edge nor a history entry has
\* come of it
ProvisionalEdgeDiscarded ==
  /\ creatingEdge'.null
  /\ Len(model'.edges) = Len(model.edges)
  /\ history' = history
  /\ currentHistoryIndex' = currentHistoryIndex

\* C28: a provisional edge is discarded, with no edge added and no history
\* entry, by Escape and by any frame that ends with a tool other than
\* create-edge and pan; a frame that ends with the pan tool keeps it, and so
\* does the frame in which the release of Space brings create-edge back
C28_EscapeAndToolSwitchDiscardTheEdge ==
  [][(lastInput' # << >> /\ ~model.null /\ ~creatingEdge.null)
       => /\ (FrameInput'.keyPressed = "Escape" /\ tool' = "create-edge")
               => ProvisionalEdgeDiscarded
          /\ tool' \notin { "create-edge", "pan" } => ProvisionalEdgeDiscarded
          /\ tool' = "pan"
               => /\ ProvisionalEdgeKept
                  /\ Len(model'.edges) = Len(model.edges)
                  /\ history' = history
          /\ (/\ tool = "pan"
              /\ tool' = "create-edge"
              /\ FrameInput'.keyReleased = "Space")
               => /\ ProvisionalEdgeKept
                  /\ Len(model'.edges) = Len(model.edges)
                  /\ history' = history]_vars

\* the pan tool was taken with Space and left again, and the provisional edge
\* is still there
C28_Witness ==
  /\ lastInput # << >>
  /\ FrameInput.keyReleased = "Space"
  /\ tool = "create-edge"
  /\ ~spacebarPanActive
  /\ ~creatingEdge.null
  /\ Len(model.edges) = 1
  /\ Len(history) = 1

\* a list of ids without one of them
WithoutId(ids, id) == SelectSeq(ids, LAMBDA i : i # id)

\* C29: with the create-surface tool and a provisional surface, a click on a
\* hovered vertex appends the vertex when the list does not hold it; when it
\* is the first of a list of three or more it adds one surface with exactly
\* the list's vertices ('Surface added') and leaves no provisional surface;
\* in every other case it takes the vertex out of the list
C29_SurfaceClick ==
  [][(/\ PressFrame'
      /\ tool' = "create-surface"
      /\ ~model.null
      /\ ~creatingSurface.null
      /\ hoveredVertex' # NULL)
       => LET list == IdsIn(vertexHeap, creatingSurface.vertices)
              v == vertexHeap'[hoveredVertex'].id
              IsIn == \E i \in 1..Len(list) : list[i] = v
          IN  IF ~IsIn
                THEN /\ ~creatingSurface'.null
                     /\ IdsIn(vertexHeap', creatingSurface'.vertices)
                          = Append(list, v)
                     /\ Len(model'.surfaces) = Len(model.surfaces)
                     /\ history' = history
              ELSE IF list[1] = v /\ Len(list) >= 3
                THEN /\ creatingSurface'.null
                     /\ Len(model'.surfaces) = Len(model.surfaces) + 1
                     /\ \A i \in 1..Len(model.surfaces) :
                          /\ surfaceHeap'[model'.surfaces[i]].id
                               = surfaceHeap[model.surfaces[i]].id
                          /\ IdsIn(vertexHeap',
                                   surfaceHeap'[model'.surfaces[i]].vertices)
                               = IdsIn(vertexHeap,
                                       surfaceHeap[model.surfaces[i]].vertices)
                     /\ IdsIn(vertexHeap',
                              surfaceHeap'[model'.surfaces[Len(model'.surfaces)]]
                                .vertices) = list
                     /\ Len(history') = Len(history) + 1
                     /\ SubSeq(history', 1, Len(history)) = history
                     /\ history'[Len(history')].action = "Surface added"
                     /\ LET ss == history'[Len(history')].model.surfaces
                        IN  /\ Len(ss) = Len(model'.surfaces)
                            /\ ss[Len(ss)].vertices = list
              ELSE /\ ~creatingSurface'.null
                   /\ IdsIn(vertexHeap', creatingSurface'.vertices)
                        = WithoutId(list, v)
                   /\ Len(model'.surfaces) = Len(model.surfaces)
                   /\ history' = history]_vars

\* a click on the first of three vertices has just closed the loop: the model
\* has a second surface, of three vertices, and nothing is provisional
C29_Witness ==
  /\ PressFrame
  /\ tool = "create-surface"
  /\ creatingSurface.null
  /\ hoveredVertex # NULL
  /\ ~model.null
  /\ Len(model.surfaces) = 2
  /\ Len(surfaceHeap[model.surfaces[2]].vertices) = 3
  /\ surfaceHeap[model.surfaces[2]].vertices[1] = hoveredVertex
  /\ Len(history) = 2
  /\ history[2].action = "Surface added"

\* C30: a provisional surface has at least one vertex in its list
C30_ProvisionalSurfaceIsNotEmpty ==
  ~creatingSurface.null => Len(creatingSurface.vertices) >= 1

\* a heap whose objects have their flags at the given values: all of them, or
\* (one # NULL) the one object only
WithFlags(heap, one, h, sel) ==
  [r \in DOMAIN heap |->
     IF one = NULL \/ one = r
       THEN [heap[r] EXCEPT !.hovered = h, !.selected = sel]
       ELSE heap[r]]

\* the editors that differ from this one in the flags only: of every object,
\* or of one vertex, one edge or one surface
FlagVariants ==
  UNION { { [Editor EXCEPT !.vertexHeap = WithFlags(@, NULL, h, sel),
                           !.edgeHeap = WithFlags(@, NULL, h, sel),
                           !.surfaceHeap = WithFlags(@, NULL, h, sel)] }
            \cup { [Editor EXCEPT !.vertexHeap = WithFlags(@, v, h, sel)] :
                     v \in DOMAIN vertexHeap }
            \cup { [Editor EXCEPT !.edgeHeap = WithFlags(@, e, h, sel)] :
                     e \in DOMAIN edgeHeap }
            \cup { [Editor EXCEPT !.surfaceHeap = WithFlags(@, f, h, sel)] :
                     f \in DOMAIN surfaceHeap } :
          h \in BOOLEAN, sel \in BOOLEAN }

\* no vertex, edge or surface of the live model is hovered or selected
LiveFlagsClear ==
  /\ \A v \in Range(model.vertices) :
       ~vertexHeap[v].hovered /\ ~vertexHeap[v].selected
  /\ \A e \in Range(model.edges) :
       ~edgeHeap[e].hovered /\ ~edgeHeap[e].selected
  /\ \A f \in Range(model.surfaces) :
       ~surfaceHeap[f].hovered /\ ~surfaceHeap[f].selected

\* C31: the flags hovered and selected are not persisted: a model that differs
\* from the live one in those flags only serializes to the same tree, and after
\* an import, an undo, a redo or a jump that replaced the model, none of the
\* live model's vertices, edges and surfaces is hovered or selected
C31_FlagsAreNotPersisted ==
  [][/\ ~model.null
          => \A other \in FlagVariants :
               Model_serialize(other, other.model) = Serialized
     /\ ((\/ HistoryImport
          \/ (currentHistoryIndex > 0 /\ HistoryUndo)
          \/ (currentHistoryIndex < Len(history) - 1 /\ HistoryRedo)
          \/ HistoryJump) /\ ~model'.null)
          => LiveFlagsClear']_vars

\* an undo has just replaced a model with a selected vertex: the selection
\* still holds that vertex, flagged, and the live model has no flag set
C31_Witness ==
  /\ console = << "Undo last action:" >>
  /\ ~model.null
  /\ model.vertices # << >>
  /\ selectedVertices # << >>
  /\ vertexHeap[selectedVertices[1]].selected
  /\ LiveFlagsClear

\* the editor after one more frame, in which the left button goes up where it
\* went down
ReleasedInPlace ==
  update(Editor, SelectInput(hoveredElement, dragStartMouse, "release",
                             FALSE, FALSE, NULL, << >>))

\* the vertex with this id is in the selection
SelectedId(s, id) ==
  \E i \in DOMAIN s.selectedVertices :
    s.vertexHeap[s.selectedVertices[i]].id = id

\* C32: with the select tool, when the left button goes down in a 2d panel on
\* a vertex that was not selected and goes up again in the next frame at the
\* same place, the vertex is selected after the release
C32_ClickOnUnselectedVertexSelectsIt ==
  [][(/\ tool = "select"
      /\ Pressed
      /\ hoveredElement' = "canvas-top"
      /\ hoveredVertex' # NULL
      /\ dragStartMouse' # << >>
      /\ ~SelectedId(Editor, vertexHeap'[hoveredVertex'].id))
       => SelectedId(ReleasedInPlace', vertexHeap'[hoveredVertex'].id)]_vars

\* the vertices, edges and surfaces of the live model
CurrentVertices == IF model.null THEN { } ELSE Range(model.vertices)

CurrentEdges == IF model.null THEN { } ELSE Range(model.edges)

CurrentSurfaces == IF model.null THEN { } ELSE Range(model.surfaces)

\* C33: every vertex, edge and surface in a selection is one of the live model
C33_SelectionIsOfTheLiveModel ==
  /\ Range(selectedVertices) \subseteq CurrentVertices
  /\ Range(selectedEdges) \subseteq CurrentEdges
  /\ Range(selectedSurfaces) \subseteq CurrentSurfaces

\* the editor after undo() has been called until it does nothing more
RECURSIVE UndoneToTheEnd(_)
UndoneToTheEnd(s) ==
  IF s.currentHistoryIndex <= 0 THEN s ELSE UndoneToTheEnd(undo(s))

\* the history was started by a mutation of the empty model that reset() made
\* (an import starts it with 'Model imported')
RecordedSinceReset == history # << >> /\ history[1].action # "Model imported"

C35_CursorIsInTheHistory ==
  IF history = << >>
    THEN currentHistoryIndex = -1
    ELSE currentHistoryIndex \in 0..(Len(history) - 1)

\* after an undo the cursor is on the first of two entries
C35_Witness ==
  /\ console = << "Undo last action:" >>
  /\ Len(history) = 2
  /\ currentHistoryIndex = 0

\* C36: undo, redo and a jump leave the history as it was, every entry and
\* the length, and dispatch no change notification
C36_WalkingTheHistoryKeepsIt ==
  [][(HistoryUndo \/ HistoryRedo \/ HistoryJump)
       => /\ history' = history
          /\ notifications' = << >>
          /\ removedControllers' = 0]_vars

\* a redo has just put back a model that an undo had replaced, the entries
\* after the first still there
C36_Witness ==
  /\ console = << "Redo last action:" >>
  /\ Len(history) >= 2
  /\ currentHistoryIndex = Len(history) - 1
  /\ ~model.null
  /\ Serialized = history[Len(history)].model

\* the anchor, the start position of the pointer and the start positions of
\* the vertices are all unset, or all set with a start position for the anchor
DragStateConsistent ==
  \/ /\ draggingVertex = NULL
     /\ dragStartMouse = << >>
     /\ dragStartVertexPositions = << >>
  \/ /\ draggingVertex # NULL
     /\ dragStartMouse # << >>
     /\ dragStartVertexPositions # << >>
     /\ vertexHeap[draggingVertex].id \in DOMAIN dragStartVertexPositions[1]

\* C37: the drag state is consistent after every step, and a press that starts
\* a drag records the position of exactly the vertices that are selected when
\* it has selected the pressed one
C37_DragStateIsConsistent ==
  [][/\ DragStateConsistent'
     /\ (Pressed /\ draggingVertex' # NULL)
          => /\ draggingVertex' = hoveredVertex'
             /\ dragStartMouse' # << >>
             /\ dragStartVertexPositions' # << >>
             /\ DOMAIN dragStartVertexPositions'[1]
                  = { vertexHeap'[v].id : v \in Range(selectedVertices') }
             /\ \A v \in Range(model.vertices) :
                  vertexHeap[v].id \in DOMAIN dragStartVertexPositions'[1]
                    => dragStartVertexPositions'[1][vertexHeap[v].id]
                         = vertexHeap[v].position]_vars

\* a drag of two selected vertices is in progress, away from where it started
C37_Witness ==
  /\ draggingVertex # NULL
  /\ mouseLeftDown
  /\ dragStartMouse # << >>
  /\ dragStartVertexPositions # << >>
  /\ Cardinality(DOMAIN dragStartVertexPositions[1]) = 2
  /\ vertexHeap[draggingVertex].position
       # dragStartVertexPositions[1][vertexHeap[draggingVertex].id]

\* C38: a surface that a click with the create-surface tool adds to the model
\* has three vertices or more, and no vertex twice
C38_CreatedSurfacesArePolygons ==
  [][(/\ PressFrame'
      /\ tool' = "create-surface"
      /\ ~model.null
      /\ ~model'.null
      /\ Len(model'.surfaces) = Len(model.surfaces) + 1)
       => LET vs == surfaceHeap'[model'.surfaces[Len(model'.surfaces)]].vertices
          IN  /\ Len(vs) >= 3
              /\ \A i, j \in 1..Len(vs) : vs[i] = vs[j] => i = j
              /\ \A i, j \in 1..Len(vs) :
                   vertexHeap'[vs[i]].id = vertexHeap'[vs[j]].id => i = j]_vars

\* a surface has just been created, and recorded
C38_Witness ==
  /\ PressFrame
  /\ tool = "create-surface"
  /\ ~model.null
  /\ Len(model.surfaces) = 2
  /\ notifications # << >>
  /\ notifications[1].action = "Surface added"
  /\ Len(notifications[1].model.surfaces[2].vertices) = 3

\* C39: at most one of the three movement constraints is active
C39_AtMostOneConstraint ==
  /\ ~(movementConstraintXActive /\ movementConstraintYActive)
  /\ ~(movementConstraintXActive /\ movementConstraintZActive)
  /\ ~(movementConstraintYActive /\ movementConstraintZActive)

\* Z is the active constraint while X and Z are both held: Z went down after X
C39_Witness ==
  /\ KeysDown = { "KeyX", "KeyZ" }
  /\ movementConstraintZActive
  /\ ~movementConstraintXActive
  /\ ~movementConstraintYActive

\* the model, the history and the cursor are as they were, and no change
\* notification was dispatched
NothingRemoved ==
  /\ model' = model
  /\ Serialized' = Serialized
  /\ notifications' = << >>
  /\ history' = history
  /\ currentHistoryIndex' = currentHistoryIndex

\* C40: Model.removeVertex, removeEdge and removeSurface called with an object
\* that is not in the model leave the three collections as they were and
\* dispatch no change notification, so that no history entry is appended
C40_RemovingAStrangerDoesNothing ==
  [][/\ \A v \in Range(selectedVertices) \ CurrentVertices :
          CommitWithin(Model_removeVertex(Editor, v), ModelBounds) => NothingRemoved
     /\ \A e \in Range(selectedEdges) \ CurrentEdges :
          CommitWithin(Model_removeEdge(Editor, e), ModelBounds) => NothingRemoved
     /\ \A f \in Range(selectedSurfaces) \ CurrentSurfaces :
          CommitWithin(Model_removeSurface(Editor, f), ModelBounds)
            => NothingRemoved]_vars

\* the selection holds an edge that the removal of one of its ends has taken
\* out of the model, and the last call dispatched nothing: 'Vertex removed' is
\* still the last entry of the history
C40_Witness ==
  /\ selectedEdges # << >>
  /\ selectedEdges[1] \notin CurrentEdges
  /\ selectedVertices # << >>
  /\ selectedVertices[1] \notin CurrentVertices
  /\ notifications = << >>
  /\ Len(history) = 2
  /\ history[2].action = "Vertex removed"
  /\ currentHistoryIndex = 1

====
